---- MODULE Spec2Model ----
(***************************************************************************)
(* Lifecycle grouper of the Jupiter perpetuals event parser:               *)
(* groupEventsIntoTrades of src/examples/get-positions-by-pda.ts.          *)
(*                                                                         *)
(* One behaviour is one call of groupEventsIntoTrades(events).  Init is    *)
(* the state after the preamble of the function (filter, sort, the         *)
(* eventsByTimestamp buckets, the empty maps); every action is one         *)
(* iteration of the loop over positionEvents, one action per branch;       *)
(* Finish is the code after the loop (sorting and the return value).       *)
(* Rerun is a second call on the same argument.  In SpecPipeline the       *)
(* argument is what getPositionEvents returns for the records of the       *)
(* ledger; in the other specifications it is the ledger itself.            *)
(*                                                                         *)
(* SpecHistory is one call of getPositionTradeHistory: getPositionEvents   *)
(* against an RPC node whose records (upstream) are given, one action per  *)
(* request sent and per reply received, then the pass over the raw events  *)
(* and the requests it leaves behind.  SpecLiquidation applies the         *)
(* arithmetic of getLiquidationPrice to a position.                        *)
(*                                                                         *)
(* Representation.                                                         *)
(*  - An amount string such as "$1,234.00" is the sequence of its          *)
(*    comma-separated digit groups, <<1, 234>>; a missing field is << >>.  *)
(*  - blockTime is a natural number, 0 standing for null.                  *)
(*  - Event objects are referred to by their index in sortedEvents, and    *)
(*    event arrays live in heap, so that two trades holding the same       *)
(*    array (the code assigns the bucket itself to newTrade.events) see    *)
(*    each other's pushes.                                                 *)
(*  - An optional number field (pnl, exitPrice, ...) is << >> when         *)
(*    undefined and <<v>> when set.                                        *)
(*  - A quotient a / b of two numbers is kept as the pair <<a, b>>.        *)
(***************************************************************************)
EXTENDS Integers, Sequences, FiniteSets, TLC

\* Longest input sequence handed to groupEventsIntoTrades.
MaxEvents == 4

VARIABLES
    ledger,             \* the events of the owner's records, in the order the ledger recorded them
    events,             \* the argument of groupEventsIntoTrades
    sortedEvents,       \* the events in chronological order
    positionEvents,     \* the indices (in sortedEvents) of the events the loop iterates over
    heap,               \* array id -> sequence of event indices (the event arrays)
    activeTrades,       \* Map tradeId -> ITrade, as the sequence of its values in insertion order
    completedTrades,    \* ITrade[]
    lifecycleCounters,  \* Map positionKey -> number
    i,                  \* number of positionEvents already iterated over
    pc,                 \* "loop" | "done"
    errors,             \* console.error calls so far, oldest first
    result,             \* <<the returned {activeTrades, completedTrades}>>, << >> before the return
    run,                \* 1 in the first call on the input, 2 in the second
    firstResult,        \* what the first call returned, << >> before a second call starts
    applied,            \* history: trade id -> the primary events applied to the trade, in order
    sizesSeen           \* history: trade id -> the values sizeUsd of the trade has taken

\* getPositionEvents and getPositionTradeHistory
VARIABLES
    targetDate,         \* the older bound of the window, in seconds
    fromDate,           \* the newer bound of the window, in seconds
    upstream,           \* account -> the records the RPC node holds for it, newest first
    rpcFails,           \* whether a request to the RPC node may fail
    fpc,                \* where the call stands: "idle", "validate", "page", "awaitPage", "tx",
                        \* "awaitTx", "returned", "failed", "grouped"
    pdaIndex,           \* the loop variable over positionPdas, from 1
    allSignatures,      \* the records of the current account kept for decoding
    beforeSignature,    \* the cursor of the next page, << >> when undefined
    hasMoreTransactions,
    totalFetched,
    txIndex,            \* the loop variable over allSignatures, from 1
    retries,            \* the retries of the call of a ...WithRetry function in progress
    allEvents,          \* the events collected so far
    filteredEvents,     \* what getPositionEvents returned
    outstanding,        \* the requests sent to the RPC node and not yet answered
    retained,           \* history: account -> allSignatures when its pagination ended
    pageRequests,       \* history: account -> the page requests sent for it
    observedOlder,      \* history: the accounts a record older than targetDate was seen for
    failedFetches       \* history: the signatures whose transaction could not be fetched

\* getLiquidationPrice
VARIABLES
    position,           \* the position and the custody values the computation reads
    liquidationPrice    \* <<the price computed>>, << >> before

\* One call of fetchTransactionWithRetry or of getSignaturesWithRetry.
VARIABLES
    retryFn,            \* the function called, "none" when there is no call
    rpc,                \* where the call stands: "idle", "request", "await", "sleep",
                        \* "returned", "thrown"
    callRetries,        \* retries
    delay,              \* delay, in hundredths of a millisecond
    requests,           \* the requests the call has sent to the node
    waits,              \* the delays the call has waited, oldest first
    failures            \* the failures of the requests of the call, oldest first

retryVars == <<retryFn, rpc, callRetries, delay, requests, waits, failures>>

\* The fee computations.
VARIABLES
    feeCall,            \* <<the arguments of getOpenCloseBaseFee and the rates of the custody>>
    feeUsd,             \* <<feeUsd, what getOpenCloseBaseFee returned>>, << >> before
    closeFeeUsd         \* <<closeFeeUsd of getLiquidationPrice>>, << >> before

feeVars == <<feeCall, feeUsd, closeFeeUsd>>

fetchVars == <<targetDate, fromDate, upstream, rpcFails, fpc, pdaIndex, allSignatures,
               beforeSignature, hasMoreTransactions, totalFetched, txIndex, retries, allEvents,
               filteredEvents, outstanding, retained, pageRequests, observedOlder, failedFetches>>

liquidationVars == <<position, liquidationPrice>>

\* What a call does not write: its argument and what the preamble made of it.
input == <<ledger, events, sortedEvents, positionEvents, run, firstResult, fetchVars,
           liquidationVars, retryVars, feeVars>>

\* What a call of groupEventsIntoTrades reads and writes.
groupVars == <<ledger, events, sortedEvents, positionEvents, heap, activeTrades, completedTrades,
               lifecycleCounters, i, pc, errors, result, run, firstResult, applied, sizesSeen>>

vars == <<groupVars, fetchVars, liquidationVars, retryVars, feeVars>>

----------------------------------------------------------------------------
\* Event kinds

IncreaseNames == {"IncreasePositionEvent", "InstantIncreasePositionEvent"}

DecreaseNames == {"DecreasePositionEvent", "InstantDecreasePositionEvent"}

LiquidateNames == {"LiquidateFullPositionEvent"}

TpslNames == {"InstantCreateTpslEvent", "InstantUpdateTpslEvent"}

\* Names that pass the positionEvents filter but have no branch in the loop.
OtherPositionNames ==
    {"IncreasePositionPreSwapEvent", "DecreasePositionPostSwapEvent", "FillLimitOrderEvent"}

PositionEventNames ==
    IncreaseNames \cup DecreaseNames \cup LiquidateNames \cup TpslNames \cup OtherPositionNames

----------------------------------------------------------------------------
\* Values

\* The amount string the formatter writes for n (no thousands separator).
Usd(n) == <<n>>

\* parseUsdValue: 0 for a missing value; otherwise the '$' and the FIRST comma
\* are removed and parseFloat reads up to the next comma.
ParseUsdValue(value) ==
    IF value = << >> THEN 0
    ELSE IF Len(value) = 1 THEN value[1]
    ELSE value[1] * 1000 + value[2]

\* new Date(blockTime).getTime(), 0 for a null blockTime.
TimeMs(blockTime) == IF blockTime = 0 THEN 0 ELSE blockTime

\* a / b in floating point, kept as numerator and denominator.
Div(a, b) == <<a, b>>

\* x || 0 for an optional number.
OrZero(opt) == IF opt = << >> THEN 0 ELSE opt[1]

Max(a, b) == IF a >= b THEN a ELSE b

----------------------------------------------------------------------------
\* Input events

PositionKeys == {"k1", "k2"}

\* The tx of an EventWithTx: the signature of the record and its (formatted)
\* block time.
Tx(sig, t) == [signature |-> sig, blockTime |-> t]

\* The market price at block time t.
PriceAt(t) == 100 + t

\* An EventWithTx: event.name, event.data (formatted by formatEventData) and tx.
Event(name, key, t, size, pos, coll, pnl, fee, liqFee) ==
    [name |-> name,
     data |-> [positionKey |-> key, sizeUsdDelta |-> size, positionSizeUsd |-> pos,
               collateralUsdDelta |-> coll, price |-> Usd(PriceAt(t)),
               pnlDelta |-> pnl, feeUsd |-> fee, liquidationFeeUsd |-> liqFee],
     tx |-> Tx(0, t)]

\* The event e when it is the only event of record number sig, of block time t.
AtTime(e, sig, t) == [e EXCEPT !.tx = Tx(sig, t), !.data.price = Usd(PriceAt(t))]

\* An increase by size (in units of $50) with the given collateral; the fee is
\* a fixed share of the size.
Increase(k, size, coll) ==
    Event("IncreasePositionEvent", k, 1, Usd(size), Usd(size), Usd(coll), << >>,
          Usd(size \div 10), << >>)

\* A decrease by size that leaves pos in the position, with pnl 3 per 10 of size.
Decrease(k, size, pos) ==
    Event("DecreasePositionEvent", k, 1, Usd(size), Usd(pos), << >>,
          Usd(3 * (size \div 10)), Usd(size \div 10), << >>)

Liquidate(k) ==
    Event("LiquidateFullPositionEvent", k, 1, << >>, Usd(0), << >>, Usd(5), Usd(1), Usd(2))

Tpsl(k) ==
    Event("InstantCreateTpslEvent", k, 1, << >>, << >>, << >>, << >>, << >>, << >>)

Fill(k) ==
    Event("FillLimitOrderEvent", k, 1, << >>, << >>, << >>, << >>, << >>, << >>)

\* Two identifiers whose lifecycles interleave: opening and full close of
\* both, liquidation and auxiliary events of the first.
LifecycleUniverse ==
    {Increase("k1", 10, 1), Decrease("k1", 10, 0), Liquidate("k1"), Tpsl("k1"), Fill("k1"),
     Increase("k2", 10, 1), Decrease("k2", 10, 0)}

\* One identifier with increases and decreases of several sizes, a decrease
\* being partial or full.
AmountUniverse ==
    {Increase("k1", 10, 1), Increase("k1", 20, 1), Decrease("k1", 10, 10),
     Decrease("k1", 20, 0), Liquidate("k1"), Tpsl("k1"), Fill("k1")}

\* The block time of record k when later[j] = 1 says that record j comes one
\* second after record j - 1 and later[j] = 0 that it shares its block time.
RECURSIVE BlockTimeOf(_, _)
BlockTimeOf(later, k) == IF k = 1 THEN 1 ELSE BlockTimeOf(later, k - 1) + later[k]

\* The events kinds[1], kinds[2], ... of successive records at these block
\* times: a sequence in chronological order.
Records(kinds, later) ==
    [k \in 1..Len(kinds) |-> AtTime(kinds[k], k, BlockTimeOf(later, k))]

----------------------------------------------------------------------------
\* The preamble of groupEventsIntoTrades

\* Array.prototype.sort is stable: an element goes after every element that
\* does not compare greater.
RECURSIVE InsertByTime(_, _)
InsertByTime(s, e) ==
    IF s = << >> THEN <<e>>
    ELSE IF TimeMs(s[Len(s)].tx.blockTime) - TimeMs(e.tx.blockTime) > 0
         THEN Append(InsertByTime(SubSeq(s, 1, Len(s) - 1), e), s[Len(s)])
         ELSE Append(s, e)

RECURSIVE SortByTime(_)
SortByTime(s) ==
    IF s = << >> THEN << >>
    ELSE InsertByTime(SortByTime(SubSeq(s, 1, Len(s) - 1)), s[Len(s)])

Indices(s) == [k \in 1..Len(s) |-> k]

\* The filter that keeps the main position events of the sorted events s.
PositionEventsOf(s) == SelectSeq(Indices(s), LAMBDA k : s[k].name \in PositionEventNames)

\* eventsByTimestamp: the bucket of block time t is the array with id t.
EventsByTimestamp(s) ==
    [t \in {s[k].tx.blockTime : k \in {j \in 1..Len(s) : s[j].tx.blockTime # 0}} |->
        SelectSeq(Indices(s), LAMBDA k : s[k].tx.blockTime = t)]

----------------------------------------------------------------------------
\* getPositionEvents

\* generateAllPositionPdas: the position accounts of the wallet, in the order
\* the fetch loop visits them.
PositionPdas == <<"k1", "k2">>

\* getSignaturesForAddress pages backwards from the newest record: the
\* records of the account pda among led, newest first.
RECURSIVE SignaturesFor(_, _)
SignaturesFor(led, pda) ==
    IF led = << >> THEN << >>
    ELSE LET last == led[Len(led)]
             older == SignaturesFor(SubSeq(led, 1, Len(led) - 1), pda)
         IN  IF last.data.positionKey = pda THEN <<last>> \o older ELSE older

\* allEvents after the loop over the accounts pdas: the events of each
\* account's records, pushed account after account.
RECURSIVE AllEvents(_, _)
AllEvents(led, pdas) ==
    IF pdas = << >> THEN << >>
    ELSE SignaturesFor(led, pdas[1]) \o AllEvents(led, Tail(pdas))

\* What getPositionEvents returns: allEvents sorted chronologically (the
\* comparator of the grouper's own sort), then the position events of it.
GetPositionEvents(led) ==
    SelectSeq(SortByTime(AllEvents(led, PositionPdas)), LAMBDA e : e.name \in PositionEventNames)

----------------------------------------------------------------------------
\* The preamble of groupEventsIntoTrades, continued

\* No call of getPositionEvents.
FetchIdle ==
    /\ targetDate = 0
    /\ fromDate = 0
    /\ upstream = << >>
    /\ rpcFails = FALSE
    /\ fpc = "idle"
    /\ pdaIndex = 0
    /\ allSignatures = << >>
    /\ beforeSignature = << >>
    /\ hasMoreTransactions = FALSE
    /\ totalFetched = 0
    /\ txIndex = 0
    /\ retries = 0
    /\ allEvents = << >>
    /\ filteredEvents = << >>
    /\ outstanding = 0
    /\ retained = << >>
    /\ pageRequests = << >>
    /\ observedOlder = {}
    /\ failedFetches = {}

\* No call of a ...WithRetry function on its own.
RetryIdle ==
    /\ retryFn = "none"
    /\ rpc = "idle"
    /\ callRetries = 0
    /\ delay = 0
    /\ requests = 0
    /\ waits = << >>
    /\ failures = << >>

\* No call of getOpenCloseBaseFee.
BaseFeeIdle ==
    /\ feeCall = << >>
    /\ feeUsd = << >>

\* No call of getLiquidationPrice and none of getOpenCloseBaseFee.
LiquidationIdle ==
    /\ position = << >>
    /\ liquidationPrice = << >>
    /\ closeFeeUsd = << >>
    /\ BaseFeeIdle

\* The state when the loop of a call on the argument arg starts.
Enter(arg) ==
    /\ events = arg
    /\ sortedEvents = SortByTime(events)
    /\ positionEvents = PositionEventsOf(sortedEvents)
    /\ heap = EventsByTimestamp(sortedEvents)
    /\ activeTrades = << >>
    /\ completedTrades = << >>
    /\ lifecycleCounters = << >>
    /\ i = 0
    /\ pc = "loop"
    /\ errors = << >>
    /\ result = << >>
    /\ applied = << >>
    /\ sizesSeen = << >>

\* The first call, for a ledger of at most MaxEvents records of the universe
\* U; fetched says whether the argument went through getPositionEvents.
Start(U, fetched) ==
    /\ \E n \in 0..MaxEvents :
         \E kinds \in [1..n -> U] :
           \E later \in [1..n -> {0, 1}] :
              /\ n > 0 => later[1] = 0
              /\ ledger = Records(kinds, later)
    /\ Enter(IF fetched THEN GetPositionEvents(ledger) ELSE ledger)
    /\ run = 1
    /\ firstResult = << >>
    /\ FetchIdle
    /\ LiquidationIdle
    /\ RetryIdle

Init == Start(LifecycleUniverse, FALSE)

InitAmounts == Start(AmountUniverse, FALSE)

InitPipeline == Start(LifecycleUniverse, TRUE)

\* A swap of the pool: no position event, it carries no positionKey.
PoolSwap == Event("PoolSwapEvent", "", 1, << >>, << >>, << >>, << >>, << >>, << >>)

\* One identifier with the events a transaction can hold side by side.
TransactionUniverse ==
    {Increase("k1", 10, 1), Decrease("k1", 10, 0), Liquidate("k1"), Tpsl("k1"), Fill("k1"), PoolSwap}

\* How an event follows the one before it: in a later second, in another
\* transaction of the same second, in the same transaction.
Steps == {"later", "sameTime", "sameTx"}

\* The transaction number and the block time of the event k: first is the
\* block time of the first transaction, 0 when it has none.
RECURSIVE SignatureAfter(_, _)
SignatureAfter(steps, k) ==
    IF k = 1 THEN 1
    ELSE SignatureAfter(steps, k - 1) + (IF steps[k] = "sameTx" THEN 0 ELSE 1)

RECURSIVE BlockTimeAfter(_, _, _)
BlockTimeAfter(steps, first, k) ==
    IF k = 1 THEN first
    ELSE BlockTimeAfter(steps, first, k - 1) + (IF steps[k] = "later" THEN 1 ELSE 0)

\* The events kinds[1], kinds[2], ... of successive transactions.
TransactionRecords(kinds, steps, first) ==
    [k \in 1..Len(kinds) |->
        AtTime(kinds[k], SignatureAfter(steps, k), BlockTimeAfter(steps, first, k))]

\* One call on the events of at most MaxEvents events of transactions.
InitTransactions ==
    /\ \E n \in 0..MaxEvents :
         \E kinds \in [1..n -> TransactionUniverse] :
           \E steps \in [1..n -> Steps] :
             \E first \in {0, 1} :
                /\ n > 0 => steps[1] = "later"
                /\ ledger = TransactionRecords(kinds, steps, first)
    /\ Enter(ledger)
    /\ run = 1
    /\ firstResult = << >>
    /\ FetchIdle
    /\ LiquidationIdle
    /\ RetryIdle

----------------------------------------------------------------------------
\* What every iteration of the loop reads first

\* The loop variable eventWithTx, as an index into sortedEvents and as a value.
CurIndex == positionEvents[i + 1]

Cur == sortedEvents[CurIndex]

InLoop == pc = "loop" /\ i < Len(positionEvents)

\* lifecycleCounters.get(positionKey) || 0
LifecycleCount(counters, key) == IF key \in DOMAIN counters THEN counters[key] ELSE 0

\* if (!lifecycleCounters.has(positionKey)) lifecycleCounters.set(positionKey, 0)
InitCounter(counters, key) ==
    IF key \in DOMAIN counters THEN counters ELSE counters @@ (key :> 0)

\* `${positionKey}-${lifecycleCount}`
TradeId(key, count) == <<key, count>>

CurTradeId == TradeId(Cur.data.positionKey, LifecycleCount(lifecycleCounters, Cur.data.positionKey))

\* activeTrades.get(tradeId): the position of the trade in the map, 0 for undefined.
ActiveAt(trades, id) ==
    IF \E n \in 1..Len(trades) : trades[n].id = id
    THEN CHOOSE n \in 1..Len(trades) : trades[n].id = id
    ELSE 0

\* A delete that leaves the map as it is.
DeleteNothing(trades, id) == trades

\* activeTrades.delete(tradeId)
DeleteTrade(trades, id) == SelectSeq(trades, LAMBDA t : t.id # id)

\* The array id of the bucket eventsByTimestamp.get(blockTime || ''), and of
\* the fresh [] the iteration over event number n creates when there is none.
HasBucket(h, blockTime) == blockTime # 0 /\ blockTime \in DOMAIN h

FreshArray(n) == 0 - n

\* allEventsAtTimestamp, as the array it is and as its present content.
AllEventsArray(h, blockTime, n) == IF HasBucket(h, blockTime) THEN blockTime ELSE FreshArray(n)

AllEventsAtTimestamp(h, blockTime) == IF HasBucket(h, blockTime) THEN h[blockTime] ELSE << >>

\* allEventsAtTimestamp.forEach(evt => { if (!isDuplicate) activeTrade.events.push(evt) }):
\* arr is the trade's array, src the events still to visit, s is sortedEvents.
RECURSIVE PushMissing(_, _, _)
PushMissing(s, arr, src) ==
    IF src = << >> THEN arr
    ELSE LET evt == src[1]
             isDuplicate ==
                 \E n \in 1..Len(arr) :
                     /\ s[arr[n]].tx.signature = s[evt].tx.signature
                     /\ s[arr[n]].name = s[evt].name
         IN  PushMissing(s, IF isDuplicate THEN arr ELSE Append(arr, evt), Tail(src))

----------------------------------------------------------------------------
\* The updates of a trade

\* The ITrade the first increase of a lifecycle creates; arr is the array that
\* becomes its events.
NewTrade(id, e, arr) ==
    [id |-> id,
     positionKey |-> e.data.positionKey,
     status |-> "active",
     entryPrice |-> ParseUsdValue(e.data.price),
     exitPrice |-> << >>,
     sizeUsd |-> ParseUsdValue(e.data.sizeUsdDelta),
     finalSize |-> << >>,
     maxSize |-> ParseUsdValue(e.data.sizeUsdDelta),
     collateralUsd |-> ParseUsdValue(e.data.collateralUsdDelta),
     leverage |-> Div(ParseUsdValue(e.data.sizeUsdDelta), ParseUsdValue(e.data.collateralUsdDelta)),
     pnl |-> << >>,
     roi |-> << >>,
     totalFees |-> ParseUsdValue(e.data.feeUsd),
     openTime |-> e.tx.blockTime,
     closeTime |-> << >>,
     events |-> arr]

\* An increase that leaves maxSize where it is.
IncreaseKeepingMaxSize(t, e) ==
    LET newCollateralUsd == t.collateralUsd + ParseUsdValue(e.data.collateralUsdDelta)
        newSizeUsd == t.sizeUsd + ParseUsdValue(e.data.sizeUsdDelta)
    IN  [t EXCEPT !.sizeUsd = newSizeUsd,
                  !.collateralUsd = newCollateralUsd,
                  !.leverage = Div(newSizeUsd, newCollateralUsd),
                  !.totalFees = t.totalFees + ParseUsdValue(e.data.feeUsd)]

\* An increase that takes the collateral of the event for that of the trade.
IncreaseReplacingCollateral(t, e) ==
    LET newCollateralUsd == ParseUsdValue(e.data.collateralUsdDelta)
        newSizeUsd == t.sizeUsd + ParseUsdValue(e.data.sizeUsdDelta)
    IN  [t EXCEPT !.sizeUsd = newSizeUsd,
                  !.maxSize = Max(newSizeUsd, t.maxSize),
                  !.collateralUsd = newCollateralUsd,
                  !.leverage = Div(newSizeUsd, newCollateralUsd),
                  !.totalFees = t.totalFees + ParseUsdValue(e.data.feeUsd)]

\* An increase added to an existing position.
IncreaseTrade(t, e) ==
    LET newCollateralUsd == t.collateralUsd + ParseUsdValue(e.data.collateralUsdDelta)
        newSizeUsd == t.sizeUsd + ParseUsdValue(e.data.sizeUsdDelta)
    IN  [t EXCEPT !.sizeUsd = newSizeUsd,
                  !.maxSize = Max(newSizeUsd, t.maxSize),
                  !.collateralUsd = newCollateralUsd,
                  !.leverage = Div(newSizeUsd, newCollateralUsd),
                  !.totalFees = t.totalFees + ParseUsdValue(e.data.feeUsd)]

\* Whether the decrease e closes the position: positionSizeUsd === 0.
IsFullClose(e) == ParseUsdValue(e.data.positionSizeUsd) = 0

\* A decrease that adds no fee to the fees of the trade.
DecreaseWithoutFee(t, e) ==
    LET pnl == OrZero(t.pnl) + ParseUsdValue(e.data.pnlDelta)
        sizeUsdDelta == ParseUsdValue(e.data.sizeUsdDelta)
        u == [t EXCEPT !.exitPrice = <<ParseUsdValue(e.data.price)>>,
                       !.pnl = <<pnl>>,
                       !.roi = <<Div(pnl, t.collateralUsd)>>]
    IN  IF IsFullClose(e)
        THEN [u EXCEPT !.finalSize = <<IF t.maxSize # 0 THEN t.maxSize ELSE t.sizeUsd + sizeUsdDelta>>,
                       !.status = "closed",
                       !.closeTime = <<e.tx.blockTime>>,
                       !.sizeUsd = 0]
        ELSE [u EXCEPT !.sizeUsd = t.sizeUsd - sizeUsdDelta]

\* A decrease applied to the active trade; roi is pnl / collateralUsd (times 100).
DecreaseTrade(t, e) ==
    LET pnl == OrZero(t.pnl) + ParseUsdValue(e.data.pnlDelta)
        sizeUsdDelta == ParseUsdValue(e.data.sizeUsdDelta)
        u == [t EXCEPT !.exitPrice = <<ParseUsdValue(e.data.price)>>,
                       !.pnl = <<pnl>>,
                       !.totalFees = t.totalFees + ParseUsdValue(e.data.feeUsd),
                       !.roi = <<Div(pnl, t.collateralUsd)>>]
    IN  IF IsFullClose(e)
        THEN [u EXCEPT !.finalSize = <<IF t.maxSize # 0 THEN t.maxSize ELSE t.sizeUsd + sizeUsdDelta>>,
                       !.status = "closed",
                       !.closeTime = <<e.tx.blockTime>>,
                       !.sizeUsd = 0]
        ELSE [u EXCEPT !.sizeUsd = t.sizeUsd - sizeUsdDelta]

\* A liquidation that leaves the liquidation fee out of the fees.
LiquidateWithoutLiquidationFee(t, e) ==
    LET pnl == OrZero(t.pnl) + ParseUsdValue(e.data.pnlDelta)
    IN  [t EXCEPT !.status = "liquidated",
                  !.exitPrice = <<ParseUsdValue(e.data.price)>>,
                  !.closeTime = <<e.tx.blockTime>>,
                  !.pnl = <<pnl>>,
                  !.totalFees = t.totalFees + ParseUsdValue(e.data.feeUsd),
                  !.finalSize = <<IF t.maxSize # 0 THEN t.maxSize ELSE t.sizeUsd>>,
                  !.sizeUsd = 0,
                  !.roi = <<Div(pnl, t.collateralUsd)>>]

\* A liquidation that sets no close time.
LiquidateWithoutCloseTime(t, e) ==
    LET pnl == OrZero(t.pnl) + ParseUsdValue(e.data.pnlDelta)
    IN  [t EXCEPT !.status = "liquidated",
                  !.exitPrice = <<ParseUsdValue(e.data.price)>>,
                  !.pnl = <<pnl>>,
                  !.totalFees = t.totalFees + ParseUsdValue(e.data.feeUsd)
                                    + ParseUsdValue(e.data.liquidationFeeUsd),
                  !.finalSize = <<IF t.maxSize # 0 THEN t.maxSize ELSE t.sizeUsd>>,
                  !.sizeUsd = 0,
                  !.roi = <<Div(pnl, t.collateralUsd)>>]

\* A liquidation applied to the active trade.
LiquidateTrade(t, e) ==
    LET pnl == OrZero(t.pnl) + ParseUsdValue(e.data.pnlDelta)
    IN  [t EXCEPT !.status = "liquidated",
                  !.exitPrice = <<ParseUsdValue(e.data.price)>>,
                  !.closeTime = <<e.tx.blockTime>>,
                  !.pnl = <<pnl>>,
                  !.totalFees = t.totalFees + ParseUsdValue(e.data.feeUsd)
                                    + ParseUsdValue(e.data.liquidationFeeUsd),
                  !.finalSize = <<IF t.maxSize # 0 THEN t.maxSize ELSE t.sizeUsd>>,
                  !.sizeUsd = 0,
                  !.roi = <<Div(pnl, t.collateralUsd)>>]

\* A termination that leaves the counter where it is.
KeepCounter(counters, key) == InitCounter(counters, key)

\* lifecycleCounters.set(positionKey, lifecycleCount + 1)
IncrementCounter(counters, key) ==
    [InitCounter(counters, key) EXCEPT ![key] = LifecycleCount(counters, key) + 1]

\* console.error of a primary or TP/SL event without active trade.
ErrorFor(e) == [event |-> e.name, positionKey |-> e.data.positionKey]

----------------------------------------------------------------------------
\* History of the trades

\* The event of this iteration is applied to the trade id as a primary event.
RecordApplied(id) ==
    applied' = IF id \in DOMAIN applied
               THEN [applied EXCEPT ![id] = Append(@, CurIndex)]
               ELSE applied @@ (id :> <<CurIndex>>)

\* The values sizeUsd has after this iteration join those it had before.
RecordSizes ==
    LET all == activeTrades' \o completedTrades'
        ids == {all[n].id : n \in 1..Len(all)}
    IN  sizesSeen' = [id \in ids |->
                         (IF id \in DOMAIN sizesSeen THEN sizesSeen[id] ELSE {})
                             \cup {all[n].sizeUsd : n \in {m \in 1..Len(all) : all[m].id = id}}]

----------------------------------------------------------------------------
\* The loop over positionEvents, one action per branch

\* The iteration leaves everything but the (initialised) counter alone.
Continue ==
    /\ i' = i + 1
    /\ lifecycleCounters' = InitCounter(lifecycleCounters, Cur.data.positionKey)
    /\ UNCHANGED <<input, heap, activeTrades, completedTrades, pc, result, applied, sizesSeen>>

\* The trade moves from activeTrades to completedTrades ({ ...activeTrade }
\* copies the fields and shares the events array) and the counter grows.
Terminate(closed) ==
    /\ completedTrades' = Append(completedTrades, closed)
    /\ activeTrades' = DeleteTrade(activeTrades, closed.id)
    /\ lifecycleCounters' = IncrementCounter(lifecycleCounters, closed.positionKey)

\* The first increase of a lifecycle: the new trade takes allEventsAtTimestamp
\* itself as its events.
OpenTrade ==
    /\ InLoop
    /\ Cur.name \in IncreaseNames
    /\ ActiveAt(activeTrades, CurTradeId) = 0
    /\ LET arr == AllEventsArray(heap, Cur.tx.blockTime, CurIndex)
       IN  /\ heap' = IF arr \in DOMAIN heap THEN heap ELSE heap @@ (arr :> << >>)
           /\ activeTrades' = Append(activeTrades, NewTrade(CurTradeId, Cur, arr))
    /\ lifecycleCounters' = InitCounter(lifecycleCounters, Cur.data.positionKey)
    /\ i' = i + 1
    /\ RecordApplied(CurTradeId)
    /\ UNCHANGED <<input, completedTrades, pc, errors, result>>
    /\ RecordSizes

\* An increase of the active trade.
IncreasePosition ==
    /\ InLoop
    /\ Cur.name \in IncreaseNames
    /\ ActiveAt(activeTrades, CurTradeId) # 0
    /\ LET n == ActiveAt(activeTrades, CurTradeId)
           t == activeTrades[n]
       IN  /\ activeTrades' = [activeTrades EXCEPT ![n] = IncreaseTrade(t, Cur)]
           /\ heap' = [heap EXCEPT ![t.events] =
                          PushMissing(sortedEvents, heap[t.events],
                                      AllEventsAtTimestamp(heap, Cur.tx.blockTime))]
    /\ lifecycleCounters' = InitCounter(lifecycleCounters, Cur.data.positionKey)
    /\ i' = i + 1
    /\ RecordApplied(CurTradeId)
    /\ UNCHANGED <<input, completedTrades, pc, errors, result>>
    /\ RecordSizes

\* An event without active trade dropped without a word.
DiscardSilently ==
    /\ InLoop
    /\ Cur.name \in DecreaseNames \cup LiquidateNames \cup TpslNames
    /\ ActiveAt(activeTrades, CurTradeId) = 0
    /\ errors' = errors
    /\ Continue

\* A decrease, a liquidation or a TP/SL event without active trade: the
\* error is logged and the loop continues.
DiscardEvent ==
    /\ InLoop
    /\ Cur.name \in DecreaseNames \cup LiquidateNames \cup TpslNames
    /\ ActiveAt(activeTrades, CurTradeId) = 0
    /\ errors' = Append(errors, ErrorFor(Cur))
    /\ Continue

\* A decrease of the active trade: a partial one, or the full close.
DecreasePosition ==
    /\ InLoop
    /\ Cur.name \in DecreaseNames
    /\ ActiveAt(activeTrades, CurTradeId) # 0
    /\ LET n == ActiveAt(activeTrades, CurTradeId)
           t == activeTrades[n]
           u == DecreaseTrade(t, Cur)
       IN  /\ heap' = [heap EXCEPT ![t.events] =
                          PushMissing(sortedEvents, heap[t.events],
                                      AllEventsAtTimestamp(heap, Cur.tx.blockTime))]
           /\ IF IsFullClose(Cur)
              THEN Terminate(u)
              ELSE /\ activeTrades' = [activeTrades EXCEPT ![n] = u]
                   /\ lifecycleCounters' = InitCounter(lifecycleCounters, Cur.data.positionKey)
                   /\ UNCHANGED completedTrades
    /\ i' = i + 1
    /\ RecordApplied(CurTradeId)
    /\ UNCHANGED <<input, pc, errors, result>>
    /\ RecordSizes

\* A liquidation of the active trade.
LiquidatePosition ==
    /\ InLoop
    /\ Cur.name \in LiquidateNames
    /\ ActiveAt(activeTrades, CurTradeId) # 0
    /\ LET t == activeTrades[ActiveAt(activeTrades, CurTradeId)]
       IN  /\ heap' = [heap EXCEPT ![t.events] =
                          PushMissing(sortedEvents, heap[t.events],
                                      AllEventsAtTimestamp(heap, Cur.tx.blockTime))]
           /\ Terminate(LiquidateTrade(t, Cur))
    /\ i' = i + 1
    /\ RecordApplied(CurTradeId)
    /\ UNCHANGED <<input, pc, errors, result>>
    /\ RecordSizes

\* A TP/SL event of the active trade: only the events are attached.
AttachTpsl ==
    /\ InLoop
    /\ Cur.name \in TpslNames
    /\ ActiveAt(activeTrades, CurTradeId) # 0
    /\ LET t == activeTrades[ActiveAt(activeTrades, CurTradeId)]
       IN  heap' = [heap EXCEPT ![t.events] =
                       PushMissing(sortedEvents, heap[t.events],
                                   AllEventsAtTimestamp(heap, Cur.tx.blockTime))]
    /\ lifecycleCounters' = InitCounter(lifecycleCounters, Cur.data.positionKey)
    /\ i' = i + 1
    /\ UNCHANGED <<input, activeTrades, completedTrades, pc, errors, result, applied, sizesSeen>>

\* A pre-swap, post-swap or limit-order fill event: no branch of the loop.
SkipEvent ==
    /\ InLoop
    /\ Cur.name \in OtherPositionNames
    /\ UNCHANGED errors
    /\ Continue

----------------------------------------------------------------------------
\* After the loop

\* The comparator of sortTradeEvents, on two events.
CompareTradeEvents(a, b) ==
    LET aTime == TimeMs(a.tx.blockTime)
        bTime == TimeMs(b.tx.blockTime)
    IN  IF aTime = bTime /\ a.name \in DecreaseNames /\ b.name = "PoolSwapEvent" THEN 0 - 1
        ELSE IF aTime = bTime /\ a.name = "PoolSwapEvent" /\ b.name \in DecreaseNames THEN 1
        ELSE aTime - bTime

\* trade.events.sort(...), an insertion sort of the array arr of event indices.
RECURSIVE InsertTradeEvent(_, _, _)
InsertTradeEvent(s, arr, x) ==
    IF arr = << >> THEN <<x>>
    ELSE IF CompareTradeEvents(s[arr[Len(arr)]], s[x]) > 0
         THEN Append(InsertTradeEvent(s, SubSeq(arr, 1, Len(arr) - 1), x), arr[Len(arr)])
         ELSE Append(arr, x)

RECURSIVE SortTradeEvents(_, _)
SortTradeEvents(s, arr) ==
    IF arr = << >> THEN << >>
    ELSE InsertTradeEvent(s, SortTradeEvents(s, SubSeq(arr, 1, Len(arr) - 1)), arr[Len(arr)])

\* sortTradeEvents applied to the trades in turn, each sorting its array in place.
RECURSIVE SortArrays(_, _, _)
SortArrays(s, h, trades) ==
    IF trades = << >> THEN h
    ELSE SortArrays(s, [h EXCEPT ![trades[1].events] = SortTradeEvents(s, h[trades[1].events])],
                    Tail(trades))

\* a.closeTime ? new Date(a.closeTime).getTime() : 0
CloseTimeMs(t) == IF t.closeTime = << >> THEN 0 ELSE TimeMs(t.closeTime[1])

\* A sort of completedTrades with aTime - bTime: oldest first.
RECURSIVE InsertCompletedOldestFirst(_, _)
InsertCompletedOldestFirst(trades, x) ==
    IF trades = << >> THEN <<x>>
    ELSE IF CloseTimeMs(trades[Len(trades)]) - CloseTimeMs(x) > 0
         THEN Append(InsertCompletedOldestFirst(SubSeq(trades, 1, Len(trades) - 1), x),
                     trades[Len(trades)])
         ELSE Append(trades, x)

\* completedTrades.sort((a, b) => bTime - aTime): newest first, stable.
RECURSIVE InsertCompleted(_, _)
InsertCompleted(trades, x) ==
    IF trades = << >> THEN <<x>>
    ELSE IF CloseTimeMs(x) - CloseTimeMs(trades[Len(trades)]) > 0
         THEN Append(InsertCompleted(SubSeq(trades, 1, Len(trades) - 1), x), trades[Len(trades)])
         ELSE Append(trades, x)

RECURSIVE SortCompleted(_)
SortCompleted(trades) ==
    IF trades = << >> THEN << >>
    ELSE InsertCompleted(SortCompleted(SubSeq(trades, 1, Len(trades) - 1)), trades[Len(trades)])

\* The end of the function: the event arrays and completedTrades are sorted
\* and the two lists are returned.
Finish ==
    /\ pc = "loop"
    /\ i = Len(positionEvents)
    /\ completedTrades' = SortCompleted(completedTrades)
    /\ heap' = SortArrays(sortedEvents, heap, activeTrades \o completedTrades')
    /\ result' = <<[activeTrades |-> activeTrades, completedTrades |-> completedTrades']>>
    /\ pc' = "done"
    /\ UNCHANGED <<input, activeTrades, lifecycleCounters, i, errors, applied, sizesSeen>>

\* The trades of a returned list with their event arrays read from the heap h.
TradesOf(trades, h) == [n \in 1..Len(trades) |-> [trades[n] EXCEPT !.events = h[@]]]

\* A returned value as its caller reads it.
Returned(res, h) ==
    [activeTrades |-> TradesOf(res.activeTrades, h),
     completedTrades |-> TradesOf(res.completedTrades, h)]

\* A second call that finds the counters of the first.
RerunKeepingCounters ==
    /\ pc = "done"
    /\ run = 1
    /\ run' = 2
    /\ firstResult' = <<Returned(result[1], heap)>>
    /\ sortedEvents' = SortByTime(events)
    /\ positionEvents' = PositionEventsOf(sortedEvents')
    /\ heap' = EventsByTimestamp(sortedEvents')
    /\ activeTrades' = << >>
    /\ completedTrades' = << >>
    /\ i' = 0
    /\ pc' = "loop"
    /\ result' = << >>
    /\ applied' = << >>
    /\ sizesSeen' = << >>
    /\ UNCHANGED <<ledger, events, errors, lifecycleCounters, fetchVars, liquidationVars, retryVars,
                   feeVars>>

\* The function is called again on the argument of the first call: the
\* preamble runs on it anew, with new maps and new arrays.
Rerun ==
    /\ pc = "done"
    /\ run = 1
    /\ run' = 2
    /\ firstResult' = <<Returned(result[1], heap)>>
    /\ sortedEvents' = SortByTime(events)
    /\ positionEvents' = PositionEventsOf(sortedEvents')
    /\ heap' = EventsByTimestamp(sortedEvents')
    /\ activeTrades' = << >>
    /\ completedTrades' = << >>
    /\ lifecycleCounters' = << >>
    /\ i' = 0
    /\ pc' = "loop"
    /\ result' = << >>
    /\ applied' = << >>
    /\ sizesSeen' = << >>
    /\ UNCHANGED <<ledger, events, errors, fetchVars, liquidationVars, retryVars, feeVars>>

\* events.filter(e => e.data.positionKey === key)
EventsOfKey(evs, key) == SelectSeq(evs, LAMBDA e : e.data.positionKey = key)

\* The trades of a returned list with the events of their event arrays.
TradesWithEvents(trades, h, sorted) ==
    [n \in 1..Len(trades) |->
        [trades[n] EXCEPT !.events = [k \in 1..Len(h[@]) |-> sorted[h[@][k]]]]]

\* A returned value with the events its trades list.
ReturnedWithEvents(res, h, sorted) ==
    [activeTrades |-> TradesWithEvents(res.activeTrades, h, sorted),
     completedTrades |-> TradesWithEvents(res.completedTrades, h, sorted)]

\* The function is called again, on the events of one identifier alone.
RerunOnIdentifier ==
    /\ pc = "done"
    /\ run = 1
    /\ run' = 2
    /\ firstResult' = <<ReturnedWithEvents(result[1], heap, sortedEvents)>>
    /\ \E key \in {"k1", "k2"} : events' = EventsOfKey(events, key)
    /\ sortedEvents' = SortByTime(events')
    /\ positionEvents' = PositionEventsOf(sortedEvents')
    /\ heap' = EventsByTimestamp(sortedEvents')
    /\ activeTrades' = << >>
    /\ completedTrades' = << >>
    /\ lifecycleCounters' = << >>
    /\ i' = 0
    /\ pc' = "loop"
    /\ result' = << >>
    /\ applied' = << >>
    /\ sizesSeen' = << >>
    /\ UNCHANGED <<ledger, errors, fetchVars, liquidationVars, retryVars, feeVars>>

Next ==
    \/ OpenTrade
    \/ IncreasePosition
    \/ DecreasePosition
    \/ LiquidatePosition
    \/ AttachTpsl
    \/ DiscardEvent
    \/ SkipEvent
    \/ Finish

\* One call on a chronological sequence of lifecycle events of two identifiers.
Spec == Init /\ [][Next]_vars

\* One call on increases and decreases of several sizes of one identifier.
SpecAmounts == InitAmounts /\ [][Next]_vars

\* One call on what getPositionEvents returns for the ledger.
SpecPipeline == InitPipeline /\ [][Next]_vars

NextRerun ==
    \/ Next
    \/ Rerun

\* One call on the events of transactions that hold several events.
SpecTransactions == InitTransactions /\ [][Next]_vars

\* Two calls on the same argument.
SpecRerun == Init /\ [][NextRerun]_vars

NextIdentifier ==
    \/ Next
    \/ RerunOnIdentifier

\* A call on the events of two identifiers, then a call on the events of one.
SpecIdentifier == Init /\ [][NextIdentifier]_vars

----------------------------------------------------------------------------
\* getPositionEvents: the records of the RPC node and what is read from them

\* { limit: 100 }
PageLimit == 100

\* totalFetched < 1000
SafetyLimit == 1000

\* maxRetries = 5
MaxRetries == 5

\* formatEventData(null): no event.
NoEvent == Event("", "", 0, << >>, << >>, << >>, << >>, << >>, << >>)

\* An inner instruction of a transaction: one that decodes to the event e, one
\* whose discriminator the coder does not know (decode returns null), one
\* whose payload makes the decoding throw.
Decodable(e) == [kind |-> "event", event |-> e]

Unrecognized == [kind |-> "unrecognized", event |-> NoEvent]

Malformed == [kind |-> "malformed", event |-> NoEvent]

\* The n-th newest record of the account pda, of the kind k (block time, err,
\* inner instructions, top-level instructions).
Record(pda, n, k) ==
    [signature |-> <<pda, n>>, blockTime |-> k.blockTime, err |-> k.err, subEvents |-> k.subEvents,
     primary |-> k.primary]

RecordsOf(pda, kinds) == [n \in 1..Len(kinds) |-> Record(pda, n, kinds[n])]

\* A check that stops the fetching at a record without block time.
ShouldContinueFetchingWithTime(blockTime, target) ==
    IF blockTime = 0 THEN FALSE ELSE blockTime >= target

\* shouldContinueFetching
ShouldContinueFetching(blockTime, target) ==
    IF blockTime = 0 THEN TRUE ELSE blockTime >= target

\* A date check that leaves the newer bound of the window out.
IsWithinDateRangeFromAnyDate(blockTime, from, to) ==
    IF blockTime = 0 THEN FALSE ELSE blockTime >= to

\* isWithinDateRange
IsWithinDateRange(blockTime, from, to) ==
    IF blockTime = 0 THEN FALSE ELSE blockTime <= from /\ blockTime >= to

\* getSignaturesForAddress(pda, {limit, before}): the limit records that
\* follow the record before, or the newest ones, of the records up.
GetSignaturesForAddress(up, before, limit) ==
    LET start == IF before = << >> THEN 1
                 ELSE 1 + CHOOSE k \in 1..Len(up) : up[k].signature = before[1]
        end == IF start + limit - 1 < Len(up) THEN start + limit - 1 ELSE Len(up)
    IN  SubSeq(up, start, end)

\* for (const sigInfo of confirmedSignatureInfos): the records kept and whether
\* the loop stopped at a record older than the target date.
ScanPage(page, sigs, target, from) ==
    LET older == {k \in 1..Len(page) : ~ShouldContinueFetching(page[k].blockTime, target)}
        stop == IF older = {} THEN Len(page) + 1
                ELSE CHOOSE k \in older : \A j \in older : k <= j
        kept == SelectSeq(SubSeq(page, 1, stop - 1),
                          LAMBDA r : IsWithinDateRange(r.blockTime, from, target))
    IN  [allSignatures |-> sigs \o kept, stopped |-> older # {}]

\* A loop that fetches the records marked failed as well.
NextTxKeepingFailed(sigs, j) == j

\* The first record from position j of sigs that is not marked failed (err),
\* Len(sigs) + 1 when there is none.
RECURSIVE NextTx(_, _)
NextTx(sigs, j) ==
    IF j > Len(sigs) THEN j
    ELSE IF sigs[j].err THEN NextTx(sigs, j + 1)
    ELSE j

\* txEvents: what the inner instructions subs of the record rec give; a
\* malformed one is null and filtered out, an unrecognized one gives an
\* entry without event.
RECURSIVE TxEvents(_, _)
TxEvents(rec, subs) ==
    IF subs = << >> THEN << >>
    ELSE LET tx == Tx(rec.signature, rec.blockTime)
             entry == IF subs[1].kind = "event"
                      THEN <<AtTime(subs[1].event, rec.signature, rec.blockTime)>>
                      ELSE IF subs[1].kind = "unrecognized"
                           THEN <<[NoEvent EXCEPT !.tx = tx]>>
                           ELSE << >>
         IN  entry \o TxEvents(rec, Tail(subs))

\* allEvents.sort(...) and the filter of the position events.
ReturnedEvents(all) == SelectSeq(SortByTime(all), LAMBDA e : e.name \in PositionEventNames)

----------------------------------------------------------------------------
\* getPositionEvents: the calls

\* Block times of the records: none (0), older than the window, the target
\* date, inside the window, the from date, newer than the window.
NoTime == 0

Older == 1

Target == 2

Inside == 3

From == 4

Newer == 5

\* The windows of a call, as <<targetDate, fromDate>>: a proper one, an empty
\* one (equal dates) and a reversed one.
Windows == {<<Target, From>>, <<Inside, Inside>>, <<From, Target>>}

Kind(t, err, subs) == [blockTime |-> t, err |-> err, subEvents |-> subs, primary |-> << >>]

\* The kind k with the event data subs in the instructions of the transaction
\* message (tx.transaction.message) instead of tx.meta.innerInstructions.
WithPrimary(k, subs) == [k EXCEPT !.primary = subs]

\* The kinds of record of a small account: on both ends of the window, inside
\* it with undecodable inner instructions before a decodable one, marked
\* failed, without block time, outside the window.
RecordKinds(key) ==
    {Kind(Newer, FALSE, <<Decodable(Increase(key, 10, 1))>>),
     Kind(From, FALSE, <<Decodable(Increase(key, 10, 1))>>),
     Kind(Inside, FALSE, <<Unrecognized, Malformed, Decodable(Decrease(key, 10, 0))>>),
     Kind(Inside, TRUE, <<Decodable(Increase(key, 20, 1))>>),
     Kind(Target, FALSE, <<Decodable(Fill(key))>>),
     Kind(NoTime, FALSE, <<Decodable(Increase(key, 20, 1))>>),
     Kind(Older, FALSE, <<Decodable(Increase(key, 10, 1))>>)}

\* The kinds of record of an account with event data in top-level
\* instructions: in them alone, in them and in inner instructions, in inner
\* instructions alone.
PrimaryKinds(key) ==
    {WithPrimary(Kind(Inside, FALSE, << >>), <<Decodable(Increase(key, 10, 1))>>),
     WithPrimary(Kind(Inside, FALSE, <<Decodable(Tpsl(key))>>), <<Decodable(Increase(key, 10, 1))>>),
     Kind(Inside, FALSE, <<Decodable(Decrease(key, 10, 0))>>)}

\* getSignaturesForAddress returns the newest records first.
NewestFirst(kinds) ==
    \A a, b \in 1..Len(kinds) :
        (a < b /\ kinds[a].blockTime # NoTime /\ kinds[b].blockTime # NoTime)
            => kinds[a].blockTime >= kinds[b].blockTime

\* The records of a long account: newer records newer than the window, then
\* inside records in it, then older records older than it.
LongAccount(pda, newer, inside, older) ==
    [n \in 1..(newer + inside + older) |->
        Record(pda, n, Kind(IF n <= newer THEN Newer ELSE IF n <= newer + inside THEN Inside ELSE Older,
                            FALSE, << >>))]

\* The records of an account of more than one page: n records in the window,
\* the record number at being without block time.
LongAccountWithoutTime(pda, n, at) ==
    [k \in 1..n |-> Record(pda, k, Kind(IF k = at THEN NoTime ELSE Inside, FALSE, << >>))]

\* The accounts with a record without block time: as <<n, at>>.
WithoutTimeShapes == {<<103, 50>>, <<101, 100>>}

\* The long accounts: as <<newer, inside, older>>.
LongShapes == {<<1000, 3, 0>>, <<0, 1001, 0>>, <<0, 1000, 1>>, <<0, 50, 60>>, <<250, 3, 2>>}

\* The number of records of a small account.
MaxRecords == 3

\* No call of groupEventsIntoTrades.
GroupIdle ==
    /\ ledger = << >>
    /\ Enter(<< >>)
    /\ run = 1
    /\ firstResult = << >>

\* getPositionEvents is called with a window and finds the records of two
\* accounts: a small first account and a second one of at most one record
\* with a node that may fail, or a long first account with a node that answers,
\* or a first account of two pages with a record without block time, or a
\* first account of two records with event data in top-level instructions.
InitHistory ==
    /\ \E w \in Windows :
         /\ targetDate = w[1]
         /\ fromDate = w[2]
    /\ \/ /\ \E n \in 0..MaxRecords :
                \E kinds \in [1..n -> RecordKinds(PositionPdas[1])] :
                  \E second \in {<< >>, <<Kind(Target, FALSE, <<Decodable(Fill(PositionPdas[2]))>>)>>} :
                     /\ NewestFirst(kinds)
                     /\ upstream = <<RecordsOf(PositionPdas[1], kinds), RecordsOf(PositionPdas[2], second)>>
          /\ rpcFails \in BOOLEAN
       \/ /\ \E shape \in LongShapes :
                upstream = <<LongAccount(PositionPdas[1], shape[1], shape[2], shape[3]), << >>>>
          /\ rpcFails = FALSE
       \/ /\ \E shape \in WithoutTimeShapes :
                upstream = <<LongAccountWithoutTime(PositionPdas[1], shape[1], shape[2]), << >>>>
          /\ rpcFails = FALSE
       \/ /\ \E kinds \in [1..2 -> PrimaryKinds(PositionPdas[1])] :
                upstream = <<RecordsOf(PositionPdas[1], kinds), << >>>>
          /\ rpcFails = FALSE
    /\ fpc = "validate"
    /\ pdaIndex = 0
    /\ allSignatures = << >>
    /\ beforeSignature = << >>
    /\ hasMoreTransactions = FALSE
    /\ totalFetched = 0
    /\ txIndex = 0
    /\ retries = 0
    /\ allEvents = << >>
    /\ filteredEvents = << >>
    /\ outstanding = 0
    /\ retained = << >>
    /\ pageRequests = [n \in 1..Len(PositionPdas) |-> 0]
    /\ observedOlder = {}
    /\ failedFetches = {}
    /\ GroupIdle
    /\ LiquidationIdle
    /\ RetryIdle

\* The variables of the loops of getPositionEvents.
Locals(p, n, sigs, before, more, total, j) ==
    /\ fpc' = p
    /\ pdaIndex' = n
    /\ allSignatures' = sigs
    /\ beforeSignature' = before
    /\ hasMoreTransactions' = more
    /\ totalFetched' = total
    /\ txIndex' = j

\* for (pdaIndex ...): the account n is entered, or the events are sorted,
\* filtered and returned.
AccountLoop(n) ==
    IF n > Len(PositionPdas)
    THEN /\ Locals("returned", n, << >>, << >>, FALSE, 0, 0)
         /\ filteredEvents' = ReturnedEvents(allEvents')
    ELSE /\ Locals("page", n, << >>, << >>, TRUE, 0, 0)
         /\ filteredEvents' = filteredEvents

\* for (let i ...): the record at or after j that is not marked failed is
\* the next one to fetch; the next account follows the last record.
TransactionLoop(sigs, before, more, total, j) ==
    IF NextTx(sigs, j) > Len(sigs)
    THEN AccountLoop(pdaIndex + 1)
    ELSE /\ Locals("tx", pdaIndex, sigs, before, more, total, NextTx(sigs, j))
         /\ filteredEvents' = filteredEvents

\* The answers of the node to a request.
Outcomes == IF rpcFails THEN {"ok", "rateLimited", "error"} ELSE {"ok"}

\* What a step of getPositionEvents leaves alone.
CallUnchanged ==
    UNCHANGED <<targetDate, fromDate, upstream, rpcFails, groupVars, liquidationVars, retryVars,
                feeVars>>

\* A window of equal dates is let through.
InvalidWindowStrict(from, target) == from < target

\* if (fromDate <= targetDate) throw
InvalidWindow(from, target) == from <= target

Validate ==
    /\ fpc = "validate"
    /\ IF InvalidWindow(fromDate, targetDate)
       THEN /\ fpc' = "failed"
            /\ UNCHANGED <<pdaIndex, allSignatures, beforeSignature, hasMoreTransactions,
                           totalFetched, txIndex, filteredEvents>>
       ELSE AccountLoop(1)
    /\ UNCHANGED <<retries, allEvents, outstanding, retained, pageRequests, observedOlder, failedFetches>>
    /\ CallUnchanged

\* getSignaturesWithRetry: RPC_CONNECTION.getSignaturesForAddress is called.
RequestPage ==
    /\ fpc = "page"
    /\ fpc' = "awaitPage"
    /\ outstanding' = outstanding + 1
    /\ pageRequests' = [pageRequests EXCEPT ![pdaIndex] = @ + 1]
    /\ UNCHANGED <<pdaIndex, allSignatures, beforeSignature, hasMoreTransactions, totalFetched,
                   txIndex, retries, allEvents, filteredEvents, retained, observedOlder, failedFetches>>
    /\ CallUnchanged

\* An older record does not end the pagination.
MorePagesIgnoringOlder(stopped, len) == len = PageLimit

\* hasMoreTransactions after a page of len records whose scan stopped or not.
MorePages(stopped, len) == ~stopped /\ len = PageLimit

\* No safety limit.
NoSafetyLimit(total) == TRUE

\* The safety limit of the while loop.
WithinSafetyLimit(total) == total < SafetyLimit

\* The while loop is left with the records sigs: they are the records of the
\* account that are fetched and decoded.
EndPagination(sigs, before, more, total) ==
    /\ retained' = Append(retained, sigs)
    /\ TransactionLoop(sigs, before, more, total, 1)

\* A cursor at the first record of the page.
FirstSignature(page) == <<page[1].signature>>

\* beforeSignature = confirmedSignatureInfos[confirmedSignatureInfos.length - 1].signature
LastSignature(page) == <<page[Len(page)].signature>>

\* The page is there: it is scanned and the cursor moves.
PageArrives ==
    LET page == GetSignaturesForAddress(upstream[pdaIndex], beforeSignature, PageLimit)
        scan == ScanPage(page, allSignatures, targetDate, fromDate)
        more == MorePages(scan.stopped, Len(page))
        total == totalFetched + Len(page)
    IN  IF page = << >>
        THEN /\ EndPagination(allSignatures, beforeSignature, hasMoreTransactions, totalFetched)
             /\ UNCHANGED observedOlder
        ELSE /\ observedOlder' = IF scan.stopped THEN observedOlder \cup {pdaIndex} ELSE observedOlder
             /\ IF more /\ WithinSafetyLimit(total)
                THEN /\ Locals("page", pdaIndex, scan.allSignatures, LastSignature(page),
                                TRUE, total, txIndex)
                     /\ UNCHANGED <<filteredEvents, retained>>
                ELSE EndPagination(scan.allSignatures,
                                   IF more THEN LastSignature(page) ELSE beforeSignature,
                                   more, total)

\* The error of getSignaturesWithRetry is not caught: getPositionEvents rejects.
PageFetchThrows ==
    /\ fpc' = "failed"
    /\ UNCHANGED <<pdaIndex, allSignatures, beforeSignature, hasMoreTransactions, totalFetched,
                   txIndex, filteredEvents, retained, observedOlder>>

\* The request of a page is rate limited and is made again.
RetryPage ==
    /\ fpc' = "page"
    /\ UNCHANGED <<pdaIndex, allSignatures, beforeSignature, hasMoreTransactions, totalFetched,
                   txIndex, filteredEvents, retained, observedOlder>>

\* getSignaturesWithRetry: the node answers.
ReceivePage ==
    /\ fpc = "awaitPage"
    /\ outstanding' = outstanding - 1
    /\ allEvents' = allEvents
    /\ \E outcome \in Outcomes :
         IF outcome = "ok"
         THEN /\ retries' = 0
              /\ PageArrives
         ELSE IF outcome = "rateLimited" /\ retries + 1 < MaxRetries
              THEN /\ retries' = retries + 1
                   /\ RetryPage
              ELSE /\ retries' = 0
                   /\ PageFetchThrows
    /\ UNCHANGED <<pageRequests, failedFetches>>
    /\ CallUnchanged

\* fetchTransactionWithRetry: RPC_CONNECTION.getTransaction is called.
RequestTransaction ==
    /\ fpc = "tx"
    /\ fpc' = "awaitTx"
    /\ outstanding' = outstanding + 1
    /\ UNCHANGED <<pdaIndex, allSignatures, beforeSignature, hasMoreTransactions, totalFetched,
                   txIndex, retries, allEvents, filteredEvents, retained, pageRequests,
                   observedOlder, failedFetches>>
    /\ CallUnchanged

\* The error leaves getPositionEvents.
TransactionFetchThrows ==
    /\ allEvents' = allEvents
    /\ failedFetches' = failedFetches \cup {allSignatures[txIndex].signature}
    /\ fpc' = "failed"
    /\ UNCHANGED <<pdaIndex, allSignatures, beforeSignature, hasMoreTransactions, totalFetched,
                   txIndex, filteredEvents>>

\* catch (error): the record is given up and the loop goes on.
TransactionFetchCaught ==
    /\ allEvents' = allEvents
    /\ failedFetches' = failedFetches \cup {allSignatures[txIndex].signature}
    /\ TransactionLoop(allSignatures, beforeSignature, hasMoreTransactions, totalFetched, txIndex + 1)

\* A malformed inner instruction ends the decoding of the record.
RECURSIVE DecodeUntilMalformed(_, _)
DecodeUntilMalformed(rec, subs) ==
    IF subs = << >> \/ subs[1].kind = "malformed" THEN << >>
    ELSE TxEvents(rec, <<subs[1]>>) \o DecodeUntilMalformed(rec, Tail(subs))

\* The first malformed inner instruction loses the later ones of the record.
DecodeRecordAborting(rec) == DecodeUntilMalformed(rec, rec.subEvents)

\* txEvents of the inner instructions of the record.
DecodeRecord(rec) == TxEvents(rec, rec.subEvents)

\* fetchTransactionWithRetry: the node answers.
ReceiveTransaction ==
    /\ fpc = "awaitTx"
    /\ outstanding' = outstanding - 1
    /\ \E outcome \in Outcomes :
         IF outcome = "ok"
         THEN /\ retries' = 0
              /\ allEvents' = allEvents \o DecodeRecord(allSignatures[txIndex])
              /\ failedFetches' = failedFetches
              /\ TransactionLoop(allSignatures, beforeSignature, hasMoreTransactions,
                                 totalFetched, txIndex + 1)
         ELSE IF outcome = "rateLimited" /\ retries + 1 < MaxRetries
              THEN /\ retries' = retries + 1
                   /\ fpc' = "tx"
                   /\ UNCHANGED <<pdaIndex, allSignatures, beforeSignature, hasMoreTransactions,
                                  totalFetched, txIndex, allEvents, filteredEvents, failedFetches>>
              ELSE /\ retries' = 0
                   /\ TransactionFetchCaught
    /\ UNCHANGED <<retained, pageRequests, observedOlder>>
    /\ CallUnchanged

----------------------------------------------------------------------------
\* getPositionTradeHistory after getPositionEvents

LimitOrderNames ==
    {"InstantCreateLimitOrderEvent", "InstantUpdateLimitOrderEvent", "FillLimitOrderEvent"}

\* The events of the raw pass whose instruction data is fetched from their
\* transaction: no event carries limitOrderInstructionData.
RECURSIVE InstructionFetches(_)
InstructionFetches(evts) ==
    IF evts = << >> THEN 0
    ELSE (IF evts[1].name \in LimitOrderNames THEN 1 ELSE 0) + InstructionFetches(Tail(evts))

\* events.forEach: every getLimitOrderInstructionData(...).then(...) calls
\* getTransaction and is left behind; groupEventsIntoTrades then runs.
RawEventPass ==
    /\ fpc = "returned"
    /\ fpc' = "grouped"
    /\ outstanding' = outstanding + InstructionFetches(filteredEvents)
    /\ UNCHANGED <<pdaIndex, allSignatures, beforeSignature, hasMoreTransactions, totalFetched,
                   txIndex, retries, allEvents, filteredEvents, retained, pageRequests,
                   observedOlder, failedFetches>>
    /\ CallUnchanged

\* A request of the raw pass is answered.
InstructionDataArrives ==
    /\ fpc = "grouped"
    /\ outstanding > 0
    /\ outstanding' = outstanding - 1
    /\ UNCHANGED <<fpc, pdaIndex, allSignatures, beforeSignature, hasMoreTransactions, totalFetched,
                   txIndex, retries, allEvents, filteredEvents, retained, pageRequests,
                   observedOlder, failedFetches>>
    /\ CallUnchanged

NextHistory ==
    \/ Validate
    \/ RequestPage
    \/ ReceivePage
    \/ RequestTransaction
    \/ ReceiveTransaction
    \/ RawEventPass
    \/ InstructionDataArrives

SpecHistory == InitHistory /\ [][NextHistory]_vars

----------------------------------------------------------------------------
\* fetchTransactionWithRetry and getSignaturesWithRetry, with their delays

RetryFunctions == {"fetchTransactionWithRetry", "getSignaturesWithRetry"}

\* let delay = 500, in milliseconds
InitialDelay == 500

\* Math.min(..., 10000) of fetchTransactionWithRetry, in milliseconds
TransactionCeiling == 10000

\* Math.min(..., 15000) of getSignaturesWithRetry, in milliseconds
SignaturesCeiling == 15000

\* delay is a floating point number of milliseconds; the delays of the model
\* are whole hundredths of a millisecond.
HundredthsPerMs == 100

\* 2 * jitter in tenths, for a jitter (Math.random() * 0.3 + 0.85) of 0.85, 1
\* and 1.1.
JitterTenths == {17, 20, 22}

\* The ceiling of the delays of the function fn, in hundredths of a millisecond.
Ceiling(fn) ==
    HundredthsPerMs * (IF fn = "fetchTransactionWithRetry" THEN TransactionCeiling
                       ELSE SignaturesCeiling)

\* A backoff without ceiling.
BackoffWithoutCeiling(d, tenths, ceiling) == (d * tenths) \div 10

\* delay = Math.min(delay * 2 * jitter, ceiling)
Backoff(d, tenths, ceiling) ==
    IF (d * tenths) \div 10 < ceiling THEN (d * tenths) \div 10 ELSE ceiling

\* One of the two functions is called.
InitRetry ==
    /\ retryFn \in RetryFunctions
    /\ rpc = "request"
    /\ callRetries = 0
    /\ delay = HundredthsPerMs * InitialDelay
    /\ requests = 0
    /\ waits = << >>
    /\ failures = << >>
    /\ GroupIdle
    /\ FetchIdle
    /\ LiquidationIdle

RetryUnchanged == UNCHANGED <<retryFn, groupVars, fetchVars, liquidationVars, feeVars>>

\* while (retries < maxRetries) { try { return await RPC_CONNECTION...
SendRequest ==
    /\ rpc = "request"
    /\ callRetries < MaxRetries
    /\ rpc' = "await"
    /\ requests' = requests + 1
    /\ UNCHANGED <<callRetries, delay, waits, failures>>
    /\ RetryUnchanged

\* The node answers: the function returns the answer.
RequestReturns ==
    /\ rpc = "await"
    /\ rpc' = "returned"
    /\ UNCHANGED <<callRetries, delay, requests, waits, failures>>
    /\ RetryUnchanged

\* catch (error), a rate limit: the error is thrown at the last retry, a
\* delay is drawn and waited otherwise.
RequestRateLimited ==
    /\ rpc = "await"
    /\ callRetries' = callRetries + 1
    /\ failures' = Append(failures, "rateLimit")
    /\ IF callRetries' >= MaxRetries
       THEN /\ rpc' = "thrown"
            /\ UNCHANGED <<delay, waits>>
       ELSE /\ \E tenths \in JitterTenths : delay' = Backoff(delay, tenths, Ceiling(retryFn))
            /\ waits' = Append(waits, delay')
            /\ rpc' = "sleep"
    /\ UNCHANGED requests
    /\ RetryUnchanged

\* catch (error), no rate limit: the error is thrown.
RequestFails ==
    /\ rpc = "await"
    /\ rpc' = "thrown"
    /\ failures' = Append(failures, "other")
    /\ UNCHANGED <<callRetries, delay, requests, waits>>
    /\ RetryUnchanged

\* The timer of the delay fires: the loop goes round.
DelayElapses ==
    /\ rpc = "sleep"
    /\ rpc' = "request"
    /\ UNCHANGED <<callRetries, delay, requests, waits, failures>>
    /\ RetryUnchanged

NextRetry ==
    \/ SendRequest
    \/ RequestReturns
    \/ RequestRateLimited
    \/ RequestFails
    \/ DelayElapses

\* One call of a ...WithRetry function.
SpecRetry == InitRetry /\ [][NextRetry]_vars

----------------------------------------------------------------------------
\* getLiquidationPrice

\* The scaling factor of basis points.
BPS_POWER == 10000

\* The scaling factor of rates.
RATE_POWER == 1000000000

\* BN.div for operands that are not negative: the quotient without remainder.
BnDiv(a, b) == a \div b

\* |a| of BN.abs.
BnAbs(a) == IF a < 0 THEN 0 - a ELSE a

\* The position account with what is read from its custody accounts. All
\* amounts are integers that stay below 2^31 through the computation.
Positions ==
    [sizeUsd : {0, 1000, 100000},
     price : {50, 100000},
     collateralUsd : {0, 150, 10161, 10162, 20000},
     long : BOOLEAN,
     cumulativeInterestSnapshot : {0},
     cumulativeInterestRate : {0, 20000},
     tradeImpactFeeScalar : {100000000},
     decreasePositionBps : {6},
     maxLeverage : {100000, 5000000}]

\* closeFeeUsd
CloseFeeUsd(p) ==
    LET priceImpactFeeBps == BnDiv(p.sizeUsd * BPS_POWER, p.tradeImpactFeeScalar)
        totalFeeBps == p.decreasePositionBps + priceImpactFeeBps
    IN  BnDiv(p.sizeUsd * totalFeeBps, BPS_POWER)

\* borrowFeeUsd
BorrowFeeUsd(p) ==
    BnDiv((p.cumulativeInterestRate - p.cumulativeInterestSnapshot) * p.sizeUsd, RATE_POWER)

\* maxLossUsd
MaxLossUsd(p) ==
    BnDiv(p.sizeUsd * BPS_POWER, p.maxLeverage) + (CloseFeeUsd(p) + BorrowFeeUsd(p))

\* marginUsd
MarginUsd(p) == p.collateralUsd

\* maxPriceDiff
MaxPriceDiff(p) == BnDiv(BnAbs(MaxLossUsd(p) - MarginUsd(p)) * p.price, p.sizeUsd)

\* A liquidation price without the branch on maxLossUsd > marginUsd.
LiquidationPriceOneBranch(p) ==
    IF p.long THEN p.price - MaxPriceDiff(p) ELSE p.price + MaxPriceDiff(p)

\* liquidationPrice of an open position.
LiquidationPrice(p) ==
    IF p.long
    THEN IF MaxLossUsd(p) > MarginUsd(p)
         THEN p.price - MaxPriceDiff(p)
         ELSE p.price + MaxPriceDiff(p)
    ELSE IF MaxLossUsd(p) > MarginUsd(p)
         THEN p.price + MaxPriceDiff(p)
         ELSE p.price - MaxPriceDiff(p)

\* getLiquidationPrice is called for a position account.
InitLiquidation ==
    /\ \E p \in Positions : position = <<p>>
    /\ liquidationPrice = << >>
    /\ closeFeeUsd = << >>
    /\ BaseFeeIdle
    /\ GroupIdle
    /\ FetchIdle
    /\ RetryIdle

\* getLiquidationPrice: no price for a closed position, the liquidation price
\* for an open one.
GetLiquidationPrice ==
    /\ position # << >>
    /\ liquidationPrice = << >>
    /\ liquidationPrice' = IF position[1].sizeUsd = 0
                           THEN << << >> >>
                           ELSE << <<LiquidationPrice(position[1])>> >>
    /\ closeFeeUsd' = IF position[1].sizeUsd = 0 THEN << >> ELSE <<CloseFeeUsd(position[1])>>
    /\ UNCHANGED <<position, feeCall, feeUsd, groupVars, fetchVars, retryVars>>

NextLiquidation == GetLiquidationPrice

SpecLiquidation == InitLiquidation /\ [][NextLiquidation]_vars

----------------------------------------------------------------------------
\* getOpenCloseBaseFee

\* The arguments of the call and the rates of the custody account it reads,
\* as raw integers.
FeeCalls ==
    [tradeSizeUsd : {0, 1000, 15000, 1000000},
     isOpen : BOOLEAN,
     increasePositionBps : {6, 7},
     decreasePositionBps : {6, 10}]

\* The positions of the fee computations: sizes with and without a remainder
\* in the divisions of closeFeeUsd.
FeePositions ==
    {p \in Positions : p.collateralUsd = 150 /\ p.price = 50 /\ p.maxLeverage = 100000}
        \cup {[p EXCEPT !.sizeUsd = 17500] :
                 p \in {q \in Positions : q.sizeUsd = 1000 /\ q.collateralUsd = 150 /\ q.price = 50
                                             /\ q.maxLeverage = 100000}}

\* A fee computed with the division first.
BaseFeeDividingFirst(tradeSizeUsd, baseFeeBps) == BnDiv(tradeSizeUsd, BPS_POWER) * baseFeeBps

\* tradeSizeUsd.mul(baseFeeBps).div(BPS_POWER)
BaseFee(tradeSizeUsd, baseFeeBps) == BnDiv(tradeSizeUsd * baseFeeBps, BPS_POWER)

\* getOpenCloseBaseFee and getLiquidationPrice are called, each for its values.
InitFees ==
    /\ \E c \in FeeCalls : feeCall = <<c>>
    /\ feeUsd = << >>
    /\ \E p \in FeePositions : position = <<p>>
    /\ liquidationPrice = << >>
    /\ closeFeeUsd = << >>
    /\ GroupIdle
    /\ FetchIdle
    /\ RetryIdle

\* getOpenCloseBaseFee: the fee of the rate of the custody that isOpen selects.
GetOpenCloseBaseFee ==
    /\ feeCall # << >>
    /\ feeUsd = << >>
    /\ LET baseFeeBps == IF feeCall[1].isOpen THEN feeCall[1].increasePositionBps
                         ELSE feeCall[1].decreasePositionBps
       IN  feeUsd' = <<BaseFee(feeCall[1].tradeSizeUsd, baseFeeBps)>>
    /\ UNCHANGED <<feeCall, closeFeeUsd, liquidationVars, groupVars, fetchVars, retryVars>>

NextFees ==
    \/ GetOpenCloseBaseFee
    \/ GetLiquidationPrice

\* The two fee computations.
SpecFees == InitFees /\ [][NextFees]_vars

----------------------------------------------------------------------------
\* Properties

\* Every trade the call holds, active ones first.
AllTrades == activeTrades \o completedTrades

\* The trades of the sequence trades that belong to the identifier key.
TradesOfKey(trades, key) == SelectSeq(trades, LAMBDA t : t.positionKey = key)

\* Whether the identifier key has an active trade.
HasActiveTrade(key) == TradesOfKey(activeTrades, key) # << >>

\* Whether the event e ends a lifecycle when it is applied to an active trade.
Terminating(e) == e.name \in LiquidateNames \/ (e.name \in DecreaseNames /\ IsFullClose(e))

\* C1: after any prefix of the input has been processed, no two active trades
\* have the same positionKey.
OneActiveTradePerKey ==
    \A m, n \in 1..Len(activeTrades) :
        activeTrades[m].positionKey = activeTrades[n].positionKey => m = n

\* C1: both identifiers have an active trade, the one of k1 being its second
\* lifecycle.
OneActiveTradePerKeyWitness ==
    /\ Len(activeTrades) = 2
    /\ \E n \in 1..Len(activeTrades) : activeTrades[n].id = TradeId("k1", 1)
    /\ \E n \in 1..Len(completedTrades) : completedTrades[n].id = TradeId("k1", 0)

\* The ordinals of the lifecycles of every identifier: the completed trades
\* carry 0, 1, ..., counter - 1, each once, and the active trade the counter.
OrdinalsInOrder ==
    \A key \in PositionKeys :
        LET count == LifecycleCount(lifecycleCounters, key)
            done == TradesOfKey(completedTrades, key)
            open == TradesOfKey(activeTrades, key)
        IN  /\ count >= 0
            /\ Len(done) = count
            /\ \A c \in 0..(count - 1) : \E n \in 1..Len(done) : done[n].id = TradeId(key, c)
            /\ \A n \in 1..Len(open) : open[n].id = TradeId(key, count)

\* The step of the counters: the counter of the identifier whose active trade
\* this iteration terminates grows by one, every other counter keeps its value.
CounterStep ==
    \A key \in PositionKeys :
        LifecycleCount(lifecycleCounters', key) =
            LifecycleCount(lifecycleCounters, key) +
                (IF /\ InLoop
                    /\ Cur.data.positionKey = key
                    /\ HasActiveTrade(key)
                    /\ Terminating(Cur)
                 THEN 1 ELSE 0)

\* C2: the lifecycle counter of an identifier starts at 0, grows by exactly one
\* when a full close or a liquidation terminates the identifier's trade and
\* stays as it is in every other iteration (increase, partial decrease,
\* auxiliary event, discarded event); the ordinals of the identifier's
\* lifecycles are 0, 1, 2, ... without gap or repetition.
CounterCountsTerminations ==
    /\ \A key \in PositionKeys : LifecycleCount(lifecycleCounters, key) = 0
    /\ [][CounterStep]_vars
    /\ []OrdinalsInOrder

\* C2: two lifecycles of k1 have terminated, a liquidation among them.
CounterCountsTerminationsWitness ==
    /\ LifecycleCount(lifecycleCounters, "k1") = 2
    /\ \E n \in 1..Len(completedTrades) : completedTrades[n].status = "liquidated"
    /\ \E n \in 1..Len(completedTrades) : completedTrades[n].status = "closed"

\* C3: the sizeUsd of a trade is never negative, and it is zero exactly when
\* the trade is closed or liquidated.
SizeZeroIffTerminated ==
    \A n \in 1..Len(AllTrades) :
        /\ AllTrades[n].sizeUsd >= 0
        /\ AllTrades[n].sizeUsd = 0 <=> AllTrades[n].status \in {"closed", "liquidated"}

\* C4: no event is in the event lists of two different trades.
EventsAttachedOnce ==
    \A m, n \in 1..Len(AllTrades) :
        m # n =>
            \A x \in 1..Len(heap[AllTrades[m].events]) :
                \A y \in 1..Len(heap[AllTrades[n].events]) :
                    heap[AllTrades[m].events][x] # heap[AllTrades[n].events][y]

\* The iteration over a decrease or a liquidation of an identifier without
\* active trade: one error for the event, and nothing else happens.
DiscardStep ==
    (/\ InLoop
     /\ Cur.name \in DecreaseNames \cup LiquidateNames
     /\ ~HasActiveTrade(Cur.data.positionKey))
        => /\ activeTrades' = activeTrades
           /\ completedTrades' = completedTrades
           /\ heap' = heap
           /\ \A key \in PositionKeys :
                  LifecycleCount(lifecycleCounters', key) = LifecycleCount(lifecycleCounters, key)
           /\ errors' = Append(errors, ErrorFor(Cur))
           /\ i' = i + 1
           /\ pc' = "loop"

\* C5: a Decrease, InstantDecrease or Liquidate event of an identifier without
\* active trade creates no trade and is reported as exactly one error; the
\* active trades, the completed trades and every counter stay as they are,
\* and the loop goes on to the next event.
DiscardChangesNothing == [][DiscardStep]_vars

\* C5: a decrease was discarded first, and a lifecycle opened and terminated
\* after it.
DiscardChangesNothingWitness ==
    /\ Len(errors) = 1
    /\ errors[1].event \in DecreaseNames
    /\ Len(completedTrades) = 1
    /\ completedTrades[1].positionKey = errors[1].positionKey

\* Whether the position of key is open after the first n records of led.
RECURSIVE OpenAfter(_, _, _)
OpenAfter(led, key, n) ==
    IF n = 0 THEN FALSE
    ELSE IF led[n].data.positionKey # key THEN OpenAfter(led, key, n - 1)
    ELSE IF led[n].name \in IncreaseNames THEN TRUE
    ELSE IF Terminating(led[n]) THEN FALSE
    ELSE OpenAfter(led, key, n - 1)

\* Record a of led opens a lifecycle and record b is the event that terminates it.
OpensAndTerminates(led, a, b) ==
    /\ a < b
    /\ led[a].name \in IncreaseNames
    /\ ~OpenAfter(led, led[a].data.positionKey, a - 1)
    /\ led[b].data.positionKey = led[a].data.positionKey
    /\ Terminating(led[b])
    /\ \A c \in (a + 1)..(b - 1) :
           ~(led[c].data.positionKey = led[a].data.positionKey /\ Terminating(led[c]))

\* The signatures of the primary events applied to the trade id, in order.
AppliedSignatures(id) == [n \in 1..Len(applied[id]) |-> sortedEvents[applied[id][n]].tx.signature]

\* C6: when the call has returned, every lifecycle that the ledger opens with
\* an Increase and later terminates (full close or liquidation) is a trade of
\* completedTrades, and no returned trade is both in activeTrades and in
\* completedTrades.
ClosedLifecyclesReturned ==
    pc = "done" =>
        /\ \A a, b \in 1..Len(ledger) :
               OpensAndTerminates(ledger, a, b) =>
                   \E n \in 1..Len(result[1].completedTrades) :
                       LET t == result[1].completedTrades[n]
                       IN  /\ t.positionKey = ledger[a].data.positionKey
                           /\ AppliedSignatures(t.id)[1] = ledger[a].tx.signature
                           /\ AppliedSignatures(t.id)[Len(applied[t.id])] = ledger[b].tx.signature
        /\ \A m \in 1..Len(result[1].activeTrades) :
               \A n \in 1..Len(result[1].completedTrades) :
                   result[1].activeTrades[m].id # result[1].completedTrades[n].id

\* An iteration of the loop leaves every completed trade, its event list
\* included, as it is.
CompletedStep ==
    InLoop =>
        \A n \in 1..Len(completedTrades) :
            /\ completedTrades'[n] = completedTrades[n]
            /\ heap'[completedTrades[n].events] = heap[completedTrades[n].events]

\* C7: a trade of completedTrades is never changed by a later event: its
\* fields and its list of attached events stay as they were at termination.
CompletedTradesFrozen == [][CompletedStep]_vars

\* The largest number of a non-empty finite set of numbers.
Largest(S) == CHOOSE x \in S : \A y \in S : y <= x

\* C8: after every event, maxSize of a trade is at least its sizeUsd and is
\* the largest value sizeUsd has taken since the trade was created.
MaxSizeIsLargestSize ==
    \A n \in 1..Len(AllTrades) :
        /\ AllTrades[n].maxSize >= AllTrades[n].sizeUsd
        /\ AllTrades[n].maxSize = Largest(sizesSeen[AllTrades[n].id])

\* C8: an active trade that grew from 10 to 30 and was then decreased to 20.
MaxSizeIsLargestSizeWitness ==
    \E n \in 1..Len(activeTrades) :
        /\ activeTrades[n].maxSize = 30
        /\ activeTrades[n].sizeUsd = 20
        /\ sizesSeen[activeTrades[n].id] = {10, 20, 30}

\* The primary events applied to the trade id, in order.
AppliedEvents(id) == [n \in 1..Len(applied[id]) |-> sortedEvents[applied[id][n]]]

OnlyIncreases(evs) == \A n \in 1..Len(evs) : evs[n].name \in IncreaseNames

\* The sums of the size deltas and of the collateral deltas of the events evs.
RECURSIVE SumSizeDeltas(_)
SumSizeDeltas(evs) ==
    IF evs = << >> THEN 0
    ELSE ParseUsdValue(evs[1].data.sizeUsdDelta) + SumSizeDeltas(Tail(evs))

RECURSIVE SumCollateralDeltas(_)
SumCollateralDeltas(evs) ==
    IF evs = << >> THEN 0
    ELSE ParseUsdValue(evs[1].data.collateralUsdDelta) + SumCollateralDeltas(Tail(evs))

\* An identifier to which only increases have been applied has one active
\* trade, whose amounts are the sums over the increases, whose leverage is
\* size over collateral (10 when the size is ten times the collateral) and
\* whose entry price and open time are those of the first increase.
IncreasesAddUp ==
    \A n \in 1..Len(activeTrades) :
        LET t == activeTrades[n]
            evs == AppliedEvents(t.id)
        IN  OnlyIncreases(evs) =>
                /\ Len(evs) >= 1
                /\ TradesOfKey(activeTrades, t.positionKey) = <<t>>
                /\ t.status = "active"
                /\ t.sizeUsd = SumSizeDeltas(evs)
                /\ t.collateralUsd = SumCollateralDeltas(evs)
                /\ t.leverage = <<t.sizeUsd, t.collateralUsd>>
                /\ t.sizeUsd = 10 * t.collateralUsd => t.leverage[1] = 10 * t.leverage[2]
                /\ t.entryPrice = ParseUsdValue(evs[1].data.price)
                /\ t.openTime = evs[1].tx.blockTime

\* The decrease of the whole size of such a trade, with pnl p, leaves no
\* active trade of the identifier and one more completed trade: closed, of
\* size 0, pnl p and the collateral it had.
WholeSizeDecreaseStep ==
    (/\ InLoop
     /\ Cur.name \in DecreaseNames
     /\ HasActiveTrade(Cur.data.positionKey)
     /\ OnlyIncreases(AppliedEvents(TradesOfKey(activeTrades, Cur.data.positionKey)[1].id))
     /\ ParseUsdValue(Cur.data.sizeUsdDelta) = TradesOfKey(activeTrades, Cur.data.positionKey)[1].sizeUsd
     /\ IsFullClose(Cur))
        => LET key == Cur.data.positionKey
               t == TradesOfKey(activeTrades, key)[1]
               done == TradesOfKey(completedTrades', key)
           IN  /\ TradesOfKey(activeTrades', key) = << >>
               /\ SubSeq(done, 1, Len(done) - 1) = TradesOfKey(completedTrades, key)
               /\ done[Len(done)].id = t.id
               /\ done[Len(done)].status = "closed"
               /\ done[Len(done)].sizeUsd = 0
               /\ done[Len(done)].pnl = <<ParseUsdValue(Cur.data.pnlDelta)>>
               /\ done[Len(done)].collateralUsd = t.collateralUsd

----------------------------------------------------------------------------
\* Properties of getPositionEvents and getPositionTradeHistory

\* The records of the account n whose block time is in [targetDate, fromDate].
WindowRecords(n) ==
    SelectSeq(upstream[n], LAMBDA r : r.blockTime # NoTime /\ r.blockTime >= targetDate
                                                          /\ r.blockTime <= fromDate)

\* C11: the records of an account that are kept for decoding, once its pages
\* have been read without a failing fetch, are exactly its upstream records
\* whose block time is in [targetDate, fromDate], however many newer records
\* come before them.
RetainedAreWindowRecords ==
    \A n \in DOMAIN retained : retained[n] = WindowRecords(n)

\* C12: no more than 1,000 records of an account are ever kept for decoding.
RetainedWithinSafetyLimit ==
    /\ Len(allSignatures) <= SafetyLimit
    /\ \A n \in DOMAIN retained : Len(retained[n]) <= SafetyLimit

\* C12: an account with more records in the window than the limit has been
\* read and exactly 1,000 of its records are kept.
RetainedWithinSafetyLimitWitness ==
    \E n \in DOMAIN retained :
        /\ Len(retained[n]) = SafetyLimit
        /\ Len(WindowRecords(n)) > SafetyLimit

\* C13: once a page of an account has shown a record older than targetDate,
\* no further page of that account is requested.
NoPageAfterOlderRecord ==
    [][\A n \in observedOlder : pageRequests'[n] = pageRequests[n]]_vars

\* C13: the first page of an account was full and held an older record; the
\* call has returned and the pages after it were never requested.
NoPageAfterOlderRecordWitness ==
    /\ fpc = "returned"
    /\ 1 \in observedOlder
    /\ Len(upstream[1]) > PageLimit
    /\ pageRequests[1] = 1

\* C14: a page fetch that fails, with its retries exhausted or with an error
\* that is no rate limit, is confined to its account: the step that receives
\* the failure does not make the call fail, it leads on to the next account
\* or to the return of the events of the other accounts.
PageFailureConfined ==
    [][fpc = "awaitPage" => /\ fpc' # "failed"
                            /\ fpc' \in {"page", "tx", "returned"}]_vars

\* C15: when the fetch of a record fails for good, only that record is
\* skipped: the events collected so far are kept and the loop goes on with
\* the next record of the account that is not marked failed, or with the next
\* account after the last record.
RecordFailureSkipsRecord ==
    [][failedFetches' # failedFetches =>
          /\ allEvents' = allEvents
          /\ fpc' # "failed"
          /\ IF NextTx(allSignatures, txIndex + 1) <= Len(allSignatures)
             THEN /\ fpc' = "tx"
                  /\ pdaIndex' = pdaIndex
                  /\ txIndex' = NextTx(allSignatures, txIndex + 1)
             ELSE pdaIndex' = pdaIndex + 1]_vars

\* The returned events that come from the record number n of the account pda.
ReturnedFrom(pda, n) ==
    {k \in 1..Len(filteredEvents) : filteredEvents[k].tx.signature = <<pda, n>>}

\* C15: the call has returned after the fetch of the second record of the
\* first account failed; events of the record before it, of the record after
\* it and of the second account are returned.
RecordFailureSkipsRecordWitness ==
    /\ fpc = "returned"
    /\ failedFetches = {<<PositionPdas[1], 2>>}
    /\ ReturnedFrom(PositionPdas[1], 1) # {}
    /\ ReturnedFrom(PositionPdas[1], 3) # {}
    /\ ReturnedFrom(PositionPdas[2], 1) # {}

DecodableEvents(rec) ==
    LET subs == SelectSeq(rec.subEvents, LAMBDA sub : sub.kind = "event")
    IN  [k \in 1..Len(subs) |-> AtTime(subs[k].event, rec.signature, rec.blockTime)]

\* The returned events that come from the record rec, in their order.
ReturnedOf(rec) == SelectSeq(filteredEvents, LAMBDA e : e.tx.signature = rec.signature)

\* The records of the calls that were fetched.
Fetched(rec) == ~rec.err /\ rec.signature \notin failedFetches

\* C17: an inner instruction that does not decode, its discriminator being
\* unknown or its payload malformed, is dropped alone: of every fetched record
\* the call returns the position events of all the inner instructions that
\* decode, in their order.
UndecodableDroppedAlone ==
    fpc \in {"returned", "grouped"} =>
        \A n \in DOMAIN retained :
            \A k \in 1..Len(retained[n]) :
                Fetched(retained[n][k]) =>
                    ReturnedOf(retained[n][k])
                        = SelectSeq(DecodableEvents(retained[n][k]),
                                    LAMBDA e : e.name \in PositionEventNames)

\* C17: the call has returned an event of a fetched record that also has an
\* inner instruction of unknown discriminator and a malformed one.
UndecodableDroppedAloneWitness ==
    /\ fpc = "returned"
    /\ \E k \in 1..Len(retained[1]) :
          /\ Fetched(retained[1][k])
          /\ \E a, b \in 1..Len(retained[1][k].subEvents) :
                /\ retained[1][k].subEvents[a].kind = "unrecognized"
                /\ retained[1][k].subEvents[b].kind = "malformed"
          /\ ReturnedOf(retained[1][k]) # << >>

\* C18: during getPositionTradeHistory at most one network request is
\* outstanding at any time.
OneRequestOutstanding == outstanding <= 1

----------------------------------------------------------------------------
\* Properties of getLiquidationPrice

\* C19: for a position of size above zero whose maxLossUsd is above its
\* marginUsd, the liquidation price is strictly below the entry price when the
\* position is long and strictly above it when the position is short.
LiquidationPriceBeyondEntry ==
    (/\ liquidationPrice # << >>
     /\ position[1].sizeUsd > 0
     /\ MaxLossUsd(position[1]) > MarginUsd(position[1]))
        => IF position[1].long
           THEN liquidationPrice[1][1] < position[1].price
           ELSE liquidationPrice[1][1] > position[1].price

----------------------------------------------------------------------------
\* Properties of the decrease branch of groupEventsIntoTrades

\* C20: a decrease applied to an active trade terminates it (status closed,
\* close time of the event, counter plus one, moved to the completed trades)
\* exactly when the size of the trade less the size delta of the event is
\* zero; otherwise the trade stays active with its size reduced by the delta.
DecreaseClosesAtZeroSize ==
    [][(/\ InLoop
        /\ Cur.name \in DecreaseNames
        /\ HasActiveTrade(Cur.data.positionKey))
          => LET key == Cur.data.positionKey
                 t == TradesOfKey(activeTrades, key)[1]
                 remaining == t.sizeUsd - ParseUsdValue(Cur.data.sizeUsdDelta)
                 done == TradesOfKey(completedTrades', key)
             IN  IF remaining = 0
                 THEN /\ TradesOfKey(activeTrades', key) = << >>
                      /\ Len(done) = Len(TradesOfKey(completedTrades, key)) + 1
                      /\ done[Len(done)].id = t.id
                      /\ done[Len(done)].status = "closed"
                      /\ done[Len(done)].closeTime = <<Cur.tx.blockTime>>
                      /\ LifecycleCount(lifecycleCounters', key) = LifecycleCount(lifecycleCounters, key) + 1
                 ELSE /\ Len(TradesOfKey(activeTrades', key)) = 1
                      /\ TradesOfKey(activeTrades', key)[1].id = t.id
                      /\ TradesOfKey(activeTrades', key)[1].status = "active"
                      /\ TradesOfKey(activeTrades', key)[1].sizeUsd = remaining
                      /\ TradesOfKey(completedTrades', key) = TradesOfKey(completedTrades, key)]_vars

----------------------------------------------------------------------------
\* Properties of the liquidation branch and of the auxiliary events

\* C21: a liquidation of an identifier with an active trade sets the status
\* to liquidated, the exit price to the price of the event and the close time
\* to its time, adds its pnl delta to the pnl and its fee and liquidation fee
\* to the fees, sets the size to 0, increments the counter of the identifier
\* and moves the trade from the active to the completed trades.
LiquidationTerminates ==
    [][(/\ InLoop
        /\ Cur.name \in LiquidateNames
        /\ HasActiveTrade(Cur.data.positionKey))
          => LET key == Cur.data.positionKey
                 t == TradesOfKey(activeTrades, key)[1]
                 done == TradesOfKey(completedTrades', key)
                 u == done[Len(done)]
             IN  /\ TradesOfKey(activeTrades', key) = << >>
                 /\ SubSeq(done, 1, Len(done) - 1) = TradesOfKey(completedTrades, key)
                 /\ u.id = t.id
                 /\ u.status = "liquidated"
                 /\ u.exitPrice = <<ParseUsdValue(Cur.data.price)>>
                 /\ u.closeTime = <<Cur.tx.blockTime>>
                 /\ u.pnl = <<OrZero(t.pnl) + ParseUsdValue(Cur.data.pnlDelta)>>
                 /\ u.totalFees = t.totalFees + ParseUsdValue(Cur.data.feeUsd)
                                      + ParseUsdValue(Cur.data.liquidationFeeUsd)
                 /\ u.sizeUsd = 0
                 /\ LifecycleCount(lifecycleCounters', key) = LifecycleCount(lifecycleCounters, key) + 1]_vars

\* C21: a trade that had a pnl from a partial decrease has been liquidated.
LiquidationTerminatesWitness ==
    \E n \in 1..Len(completedTrades) :
        /\ completedTrades[n].status = "liquidated"
        /\ completedTrades[n].pnl[1] > ParseUsdValue(Liquidate("k1").data.pnlDelta)
        /\ completedTrades[n].totalFees > ParseUsdValue(Liquidate("k1").data.liquidationFeeUsd)

\* The TP/SL, swap and limit-order fill events of the loop.
AuxiliaryNames == TpslNames \cup OtherPositionNames

\* Whether the trade t was active when the loop came to the event number x of
\* sortedEvents: after the event that opened it and, when it is completed,
\* before the event that terminated it.
ActiveDuring(t, x) ==
    /\ t.id \in DOMAIN applied
    /\ applied[t.id][1] < x
    /\ t.status = "active" \/ x < applied[t.id][Len(applied[t.id])]

\* C22: when the call has returned, every TP/SL, pre-swap, post-swap or
\* limit-order fill event that the loop came to while its identifier had an
\* active trade is in the event list of that trade.
AuxiliaryEventsAttached ==
    pc = "done" =>
        \A n \in 1..Len(AllTrades) :
            \A x \in 1..Len(sortedEvents) :
                (/\ sortedEvents[x].name \in AuxiliaryNames
                 /\ sortedEvents[x].data.positionKey = AllTrades[n].positionKey
                 /\ ActiveDuring(AllTrades[n], x))
                    => \E k \in 1..Len(heap[AllTrades[n].events]) : heap[AllTrades[n].events][k] = x

\* The event list of the trade t, as (transaction signature, event kind) pairs.
AttachedKinds(t) ==
    [k \in 1..Len(heap[t.events]) |->
        <<sortedEvents[heap[t.events][k]].tx.signature, sortedEvents[heap[t.events][k]].name>>]

\* C23: when the call has returned, no event list of a trade holds two
\* entries of the same transaction signature and the same event kind.
NoDuplicateAttachment ==
    pc = "done" =>
        \A n \in 1..Len(AllTrades) :
            \A a, b \in 1..Len(AttachedKinds(AllTrades[n])) :
                AttachedKinds(AllTrades[n])[a] = AttachedKinds(AllTrades[n])[b] => a = b

\* Whether this iteration applies a primary event to a trade.
AppliesPrimary ==
    /\ InLoop
    /\ Cur.name \in IncreaseNames \cup DecreaseNames \cup LiquidateNames
    /\ Cur.name \in IncreaseNames \/ ActiveAt(activeTrades, CurTradeId) # 0

\* C24: after a primary event (increase, decrease, liquidation) is applied to
\* a trade, the event list of the trade holds the event itself and every
\* input event of the same record timestamp, a missing block time included.
SameTimestampAttached ==
    [][AppliesPrimary =>
          \A n \in 1..Len(activeTrades' \o completedTrades') :
              (activeTrades' \o completedTrades')[n].id = CurTradeId =>
                  \A x \in 1..Len(sortedEvents) :
                      sortedEvents[x].tx.blockTime = Cur.tx.blockTime =>
                          \E k \in 1..Len(heap'[(activeTrades' \o completedTrades')[n].events]) :
                              heap'[(activeTrades' \o completedTrades')[n].events][k] = x]_vars

\* The events of the event list of the trade t, in the order of the list.
AttachedEvents(t) == [k \in 1..Len(heap[t.events]) |-> sortedEvents[heap[t.events][k]]]

\* C25: in every returned trade the event list is in non-decreasing order of
\* block time, and no PoolSwapEvent stands before a decrease of the same
\* timestamp.
TradeEventsOrdered ==
    pc = "done" =>
        \A n \in 1..Len(AllTrades) :
            \A a, b \in 1..Len(AttachedEvents(AllTrades[n])) :
                a < b =>
                    LET ea == AttachedEvents(AllTrades[n])[a]
                        eb == AttachedEvents(AllTrades[n])[b]
                    IN  /\ TimeMs(ea.tx.blockTime) <= TimeMs(eb.tx.blockTime)
                        /\ ~(/\ ea.name = "PoolSwapEvent"
                             /\ eb.name \in DecreaseNames
                             /\ ea.tx.blockTime = eb.tx.blockTime)

\* C26: the completed trades are returned in descending order of close time.
CompletedNewestFirst ==
    pc = "done" =>
        \A a, b \in 1..Len(result[1].completedTrades) :
            a < b => CloseTimeMs(result[1].completedTrades[a]) >= CloseTimeMs(result[1].completedTrades[b])

\* C26: two trades that were completed one after the other, at different
\* close times, have been returned.
CompletedNewestFirstWitness ==
    /\ pc = "done"
    /\ Len(result[1].completedTrades) >= 2
    /\ CloseTimeMs(result[1].completedTrades[1]) > CloseTimeMs(result[1].completedTrades[2])

\* C27: the trades reconstructed for an identifier from its events alone are
\* the trades reconstructed for it from the events of all identifiers: the same
\* trades in the same order, with the same status, sizes, pnl, fees and events.
IdentifierTradesIndependent ==
    (run = 2 /\ pc = "done") =>
        \A key \in {"k1", "k2"} :
            events = EventsOfKey(ledger, key) =>
                LET alone == ReturnedWithEvents(result[1], heap, sortedEvents)
                IN  /\ alone.activeTrades = TradesOfKey(firstResult[1].activeTrades, key)
                    /\ alone.completedTrades = TradesOfKey(firstResult[1].completedTrades, key)

----------------------------------------------------------------------------
\* Properties of the records getPositionEvents keeps and skips

\* Whether the record r has a block time in [targetDate, fromDate].
InWindow(r) == r.blockTime # NoTime /\ targetDate <= r.blockTime /\ r.blockTime <= fromDate

\* C28: every record kept for decoding, while the pages of an account are read
\* and afterwards, has a block time t with targetDate <= t <= fromDate.
RetainedInsideWindow ==
    /\ \A k \in 1..Len(allSignatures) : InWindow(allSignatures[k])
    /\ \A n \in DOMAIN retained : \A k \in 1..Len(retained[n]) : InWindow(retained[n][k])

\* C28: one page held a record newer than the window, a record in the window
\* and a record older than it, and the record in the window alone is kept.
RetainedInsideWindowWitness ==
    /\ 1 \in DOMAIN retained
    /\ Len(upstream[1]) = 3
    /\ upstream[1][1].blockTime > fromDate
    /\ InWindow(upstream[1][2])
    /\ upstream[1][3].blockTime < targetDate /\ upstream[1][3].blockTime # NoTime
    /\ retained[1] = <<upstream[1][2]>>

\* Whether no record before position k of the records up is older than targetDate.
NoOlderBefore(up, k) ==
    \A j \in 1..(k - 1) : up[j].blockTime = NoTime \/ up[j].blockTime >= targetDate

\* C29: a record without block time is never kept for decoding, and it does
\* not stop the reading of an account: below the safety limit, every record
\* of the window that no older record precedes is kept, whatever records
\* without block time come before it in its page or in the pages before.
NoTimeNeitherKeptNorStops ==
    /\ \A k \in 1..Len(allSignatures) : allSignatures[k].blockTime # NoTime
    /\ \A n \in DOMAIN retained :
          /\ \A k \in 1..Len(retained[n]) : retained[n][k].blockTime # NoTime
          /\ Len(upstream[n]) < SafetyLimit =>
                \A k \in 1..Len(upstream[n]) :
                    (InWindow(upstream[n][k]) /\ NoOlderBefore(upstream[n], k))
                        => \E m \in 1..Len(retained[n]) : retained[n][m] = upstream[n][k]

\* Whether the record r is among the records kept for the account n.
Retains(n, r) == \E m \in 1..Len(retained[n]) : retained[n][m] = r

\* C29: the full first page of an account held a record without block time
\* before its last record; that record is not kept, the record after it in
\* the page is, the second page was requested and its first record is kept.
NoTimeNeitherKeptNorStopsWitness ==
    /\ fpc = "returned"
    /\ 1 \in DOMAIN retained
    /\ Len(upstream[1]) > PageLimit
    /\ \E k \in 1..(PageLimit - 1) :
          /\ upstream[1][k].blockTime = NoTime
          /\ ~Retains(1, upstream[1][k])
          /\ Retains(1, upstream[1][k + 1])
    /\ pageRequests[1] = 2
    /\ Retains(1, upstream[1][PageLimit + 1])

\* The events collected or returned that carry the signature of the record rec.
EventsFrom(rec) ==
    {k \in 1..Len(allEvents) : allEvents[k].tx.signature = rec.signature}
        \cup {Len(allEvents) + k : k \in {j \in 1..Len(filteredEvents) :
                                             filteredEvents[j].tx.signature = rec.signature}}

\* C30: a record marked failed is skipped entirely: its transaction is never
\* the one requested, so its fetch never fails either, and no event, decoded
\* or not, of its inner instructions is collected or returned.
FailedRecordSkipped ==
    /\ fpc \in {"tx", "awaitTx"} => ~allSignatures[txIndex].err
    /\ \A n \in DOMAIN retained :
          \A k \in 1..Len(retained[n]) :
              retained[n][k].err =>
                  /\ retained[n][k].signature \notin failedFetches
                  /\ EventsFrom(retained[n][k]) = {}

\* C30: the call has returned; a record marked failed, with an inner
\* instruction that decodes, was kept between two records whose events are
\* returned.
FailedRecordSkippedWitness ==
    /\ fpc = "returned"
    /\ 1 \in DOMAIN retained
    /\ Len(retained[1]) = 3
    /\ retained[1][2].err
    /\ DecodableEvents(retained[1][2]) # << >>
    /\ ReturnedOf(retained[1][1]) # << >>
    /\ ReturnedOf(retained[1][3]) # << >>

----------------------------------------------------------------------------
\* Properties of the retries, the pagination and the decoding

\* C31: one call of a ...WithRetry function sends at most maxRetries requests;
\* every request but the first follows a rate-limit failure of the request
\* before it, and any other failure is thrown at once; every delay waited is
\* at most the ceiling of the function and at least the delay waited before it.
RetriesBoundedAndBackedOff ==
    /\ requests <= MaxRetries
    /\ Len(failures) <= requests
    /\ \A k \in 1..Len(failures) : k < requests => failures[k] = "rateLimit"
    /\ \A k \in 1..Len(failures) : failures[k] = "other" => (k = requests /\ rpc = "thrown")
    /\ \A k \in 1..Len(waits) :
          /\ waits[k] <= Ceiling(retryFn)
          /\ k > 1 => waits[k] >= waits[k - 1]

\* C31: a call of fetchTransactionWithRetry has thrown after five rate-limited
\* requests and four delays, of which the last one is the ceiling.
RetriesBoundedAndBackedOffWitness ==
    /\ retryFn = "fetchTransactionWithRetry"
    /\ rpc = "thrown"
    /\ requests = MaxRetries
    /\ Len(waits) = 4
    /\ waits[4] = Ceiling(retryFn)
    /\ waits[3] < waits[4]

\* C32: the pagination of an account ends after at most ten pages of 100
\* records. A request of a page (the repeated request after a rate limit
\* included) follows full pages only, fewer than ten of them; it carries no
\* cursor when it is the first and the signature of the last record of the
\* page before otherwise. After an answer the loop asks for a further page
\* only when the answer held 100 records: an empty or shorter page ends the
\* pagination of the account.
PaginationBounded ==
    [][/\ (fpc = "page" /\ fpc' = "awaitPage") =>
              /\ totalFetched % PageLimit = 0
              /\ totalFetched \div PageLimit < 10
              /\ beforeSignature = IF totalFetched = 0 THEN << >>
                                   ELSE <<upstream[pdaIndex][totalFetched].signature>>
       /\ (fpc = "awaitPage" /\ fpc' = "page" /\ pdaIndex' = pdaIndex
                              /\ totalFetched' # totalFetched) =>
              /\ totalFetched' = totalFetched + PageLimit
              /\ Len(upstream[pdaIndex]) >= totalFetched'
       /\ (fpc = "awaitPage" /\ fpc' # "failed" /\ ~(fpc' = "page" /\ pdaIndex' = pdaIndex)) =>
              Len(retained') = Len(retained) + 1]_vars

\* C32: the call has returned after ten requests of pages for an account of
\* more than 1,000 records.
PaginationBoundedWitness ==
    /\ fpc = "returned"
    /\ Len(upstream[1]) > SafetyLimit
    /\ pageRequests[1] = 10

\* The record rec with its top-level instructions as inner instructions.
AsInner(rec) == [rec EXCEPT !.subEvents = rec.primary, !.primary = << >>]

\* C33: a fetched record whose event data are all in top-level instructions
\* yields the events it would yield with the same data in inner instructions:
\* the position events of the instructions that decode, in their order.
PrimaryDecodedAsInner ==
    fpc \in {"returned", "grouped"} =>
        \A n \in DOMAIN retained :
            \A k \in 1..Len(retained[n]) :
                (Fetched(retained[n][k]) /\ retained[n][k].subEvents = << >>) =>
                    ReturnedOf(retained[n][k])
                        = SelectSeq(DecodableEvents(AsInner(retained[n][k])),
                                    LAMBDA e : e.name \in PositionEventNames)

----------------------------------------------------------------------------
\* Properties of the liquidation price and of the fees

\* The price of the open position p liquidated on the other side.
MirrorPrice(p) == LiquidationPrice([p EXCEPT !.long = ~p.long])

\* C34: the price computed for an open position is the entry price moved by
\* delta = |maxLossUsd - marginUsd| * price / sizeUsd, with maxLossUsd =
\* sizeUsd * 10,000 / maxLeverage + closing fee + funding fee: down for a long
\* and up for a short when maxLossUsd > marginUsd, up for a long and down for a
\* short otherwise; the prices of the long and of the short position of the
\* same values lie at the same distance on either side of the entry price.
LiquidationPriceFormula ==
    (liquidationPrice # << >> /\ position[1].sizeUsd > 0) =>
        LET p == position[1]
            maxLoss == (p.sizeUsd * 10000) \div p.maxLeverage + CloseFeeUsd(p) + BorrowFeeUsd(p)
            gap == IF maxLoss > p.collateralUsd THEN maxLoss - p.collateralUsd
                   ELSE p.collateralUsd - maxLoss
            delta == (gap * p.price) \div p.sizeUsd
            down == (p.long /\ maxLoss > p.collateralUsd) \/ (~p.long /\ ~(maxLoss > p.collateralUsd))
        IN  /\ liquidationPrice[1][1] = IF down THEN p.price - delta ELSE p.price + delta
            /\ liquidationPrice[1][1] + MirrorPrice(p) = 2 * p.price

\* C34: the price of a long position whose margin exceeds its maximum loss has
\* been computed, and it is above the entry price.
LiquidationPriceFormulaWitness ==
    /\ liquidationPrice # << >>
    /\ position[1].sizeUsd > 0
    /\ position[1].long
    /\ MaxLossUsd(position[1]) < MarginUsd(position[1])
    /\ liquidationPrice[1][1] > position[1].price

\* Whether q is floor(n / d), for n >= 0 and d > 0.
IsFloor(q, n, d) == q * d <= n /\ n < (q + 1) * d

\* The price-impact rates, in basis points, of the sizes and scalars at hand.
ImpactRates == 0..100

\* C35: the fees are integers computed with the multiplication before the
\* division: the base fee is floor(size * rate / 10,000) for the rate of the
\* side of the call, and the closing fee of the liquidation price is
\* floor(size * (base rate + floor(size * 10,000 / scalar)) / 10,000), the
\* price-impact rate being added to the base rate before the conversion.
FeesMultiplyBeforeDividing ==
    /\ feeUsd # << >> =>
          LET c == feeCall[1]
              rate == IF c.isOpen THEN c.increasePositionBps ELSE c.decreasePositionBps
          IN  IsFloor(feeUsd[1], c.tradeSizeUsd * rate, 10000)
    /\ closeFeeUsd # << >> =>
          LET p == position[1]
          IN  \E impact \in ImpactRates :
                 /\ IsFloor(impact, p.sizeUsd * 10000, p.tradeImpactFeeScalar)
                 /\ IsFloor(closeFeeUsd[1], p.sizeUsd * (p.decreasePositionBps + impact), 10000)

\* C35: both fees have been computed where the order of the operations shows:
\* a base fee of 9 for a size of 15,000 at 6 basis points (6 with the division
\* first), and a closing fee of 12 for a size of 17,500 at 6 basis points and a
\* price-impact rate of 1, where the two fees converted one by one are 10 and 1.
FeesMultiplyBeforeDividingWitness ==
    /\ feeUsd = <<9>>
    /\ feeCall[1].tradeSizeUsd = 15000
    /\ closeFeeUsd = <<12>>
    /\ position[1].sizeUsd = 17500
    /\ position[1].decreasePositionBps = 6

----------------------------------------------------------------------------
\* Properties of the order of the events and of the returned trades

\* C36: the events of one identifier are applied in the order in which the
\* ledger recorded them, also when two records carry the same block time:
\* the loop of groupEventsIntoTrades, run on what getPositionEvents returns,
\* has iterated over the event of an older record before the event of a
\* newer record of the same identifier.
AppliedInLedgerOrder ==
    \A a, b \in 1..i :
        (/\ a < b
         /\ sortedEvents[positionEvents[a]].data.positionKey
                = sortedEvents[positionEvents[b]].data.positionKey)
            => sortedEvents[positionEvents[a]].tx.signature
                   < sortedEvents[positionEvents[b]].tx.signature

\* The returned trades, active ones first.
ReturnedTrades == result[1].activeTrades \o result[1].completedTrades

\* C37: in the returned value every trade of activeTrades has the status
\* active and no close time, every trade of completedTrades has the status
\* closed or liquidated and the block time of the last primary event applied
\* to it as its close time, and no two returned trades have the same id.
ReturnedTradesWellFormed ==
    pc = "done" =>
        /\ \A n \in 1..Len(result[1].activeTrades) :
              /\ result[1].activeTrades[n].status = "active"
              /\ result[1].activeTrades[n].closeTime = << >>
        /\ \A n \in 1..Len(result[1].completedTrades) :
              LET t == result[1].completedTrades[n]
              IN  /\ t.status \in {"closed", "liquidated"}
                  /\ t.closeTime = <<sortedEvents[applied[t.id][Len(applied[t.id])]].tx.blockTime>>
        /\ \A m, n \in 1..Len(ReturnedTrades) :
              ReturnedTrades[m].id = ReturnedTrades[n].id => m = n

\* C37: the returned value holds three trades, among them a liquidated trade
\* and the active trade that follows it for the same identifier.
ReturnedTradesWellFormedWitness ==
    /\ pc = "done"
    /\ Len(ReturnedTrades) = 3
    /\ \E a \in 1..Len(result[1].activeTrades) :
          \E c \in 1..Len(result[1].completedTrades) :
             /\ result[1].completedTrades[c].status = "liquidated"
             /\ result[1].activeTrades[a].positionKey = result[1].completedTrades[c].positionKey

\* C38: after every event applied to it, every active trade has the leverage
\* sizeUsd / collateralUsd of its present size and collateral, a trade that
\* was partially decreased included.
LeverageIsSizeOverCollateral ==
    \A n \in 1..Len(activeTrades) :
        LET t == activeTrades[n]
        IN  t.leverage[1] * t.collateralUsd = t.sizeUsd * t.leverage[2]

\* The fee of the event e, the liquidation fee of a liquidation included.
PrimaryFee(e) ==
    ParseUsdValue(e.data.feeUsd)
        + (IF e.name \in LiquidateNames THEN ParseUsdValue(e.data.liquidationFeeUsd) ELSE 0)

\* The sum of the fees of the events of the indices idx of sortedEvents.
RECURSIVE SumOfFees(_)
SumOfFees(idx) ==
    IF idx = << >> THEN 0 ELSE PrimaryFee(sortedEvents[idx[1]]) + SumOfFees(Tail(idx))

\* C39: the totalFees of a trade are always the sum of the fees of the primary
\* events applied to it so far, the opening increase included, plus the
\* liquidation fee when it was liquidated; discarded events and the other
\* events of the position add nothing.
TotalFeesAreSumOfFees ==
    \A n \in 1..Len(AllTrades) :
        AllTrades[n].totalFees = SumOfFees(applied[AllTrades[n].id])

\* C39: a liquidated trade that three primary events were applied to is among
\* the completed trades, after an event of the position with no active trade
\* was discarded.
TotalFeesAreSumOfFeesWitness ==
    /\ errors # << >>
    /\ \E n \in 1..Len(completedTrades) :
          /\ completedTrades[n].status = "liquidated"
          /\ Len(applied[completedTrades[n].id]) = 3
          /\ completedTrades[n].totalFees > 3

====
